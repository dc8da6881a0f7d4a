---------------------------- MODULE GridEngine_proofs ----------------------------
(***************************************************************************)
(* What holds of a run of either engine whatever the strategies, the       *)
(* candles and the funding rates are: a grid has a position or an order,   *)
(* nothing is held beyond the stop price, a run that has ended is flat,    *)
(* the books balance, the account is solvent at every close, the estimate  *)
(* of the worst case covers the stop, the compact engine is the engine,    *)
(* and what the page works out about a strategy agrees with the service    *)
(* and with what becomes of it.  The lemmas of the first part leave open   *)
(* how an engine values the account and finds the touched grids, so that   *)
(* they serve both; those on sums are what the folds of the community      *)
(* modules come to.                                                        *)
(***************************************************************************)
EXTENDS GridEngineCompact, GridPrecheck, TLAPS, WellFoundedInduction, FiniteSetTheorems

\* The part of a candle in which it may still be traded.
Trading == {"funding", "carried", "first pass", "second pass", "opened"}

\* A candle is only worked through while the run goes on.
ActiveWhileTrading == phase \in Trading => active

\* What holds of positions and orders between any two steps.
Inv ==
  /\ strategy \in Strategies
  /\ active \in BOOLEAN
  /\ phase \in Trading \cup {"late funding", "liquidation", "orders", "done"}
  /\ ActiveWhileTrading
  /\ OrdersApart
  /\ NothingHeldBeyondStop
  /\ EndedIsFlat

-----------------------------------------------------------------------------
(* What opening, closing and placing orders do to the grids.               *)

\* Positions are opened for some of the grids that open_position is called for.
LEMMA OpenDomain ==
  ASSUME NEW STATE grids, NEW STATE level, NEW STATE rate, Open(grids, level, rate)
  PROVE  /\ DOMAIN positions \subseteq DOMAIN positions'
         /\ DOMAIN positions' \subseteq DOMAIN positions \cup grids
BY DEF Open

\* close_position leaves the other positions.
LEMMA CloseDomain ==
  ASSUME NEW STATE grids, NEW STATE level, NEW STATE rate, NEW STATE reason,
         Close(grids, level, rate, reason)
  PROVE  DOMAIN positions' = DOMAIN positions \ grids
BY DEF Close

\* After execute_stop_loss nothing is held at the stop price, and the run goes on unless it closed
\* what was held.
LEMMA StopLossDomain ==
  ASSUME strategy \in Strategies, active \in BOOLEAN, StopLoss
  PROVE  /\ DOMAIN positions' \subseteq DOMAIN positions
         /\ StopIsTouched => DOMAIN positions' = {}
         /\ active' \in BOOLEAN
         /\ ~active' => ~active \/ DOMAIN positions' = {}
<1>1. CASE StopIsTouched /\ DOMAIN positions # {}
  <2>1. DOMAIN positions' = {}
    BY <1>1, CloseDomain DEF StopLoss
  <2>2. active' = strategy.reopen
    BY <1>1 DEF StopLoss
  <2>3. strategy.reopen \in BOOLEAN
    BY StrategiesAssumption DEF StrategyConfig
  <2> QED BY <2>1, <2>2, <2>3
<1>2. CASE ~(StopIsTouched /\ DOMAIN positions # {})
  BY <1>2 DEF StopLoss
<1> QED BY <1>1, <1>2

\* The orders of refresh_pending_orders are for grids without a position.
LEMMA RefreshedApart ==
  ASSUME NEW STATE orders, NEW STATE held, NEW STATE price, NEW STATE equity, NEW STATE used
  PROVE  Refreshed(orders, held, price, equity, used) \cap held = {}
BY DEF Refreshed

-----------------------------------------------------------------------------
(* The steps.                                                              *)

\* A run begins without orders for what it holds.
LEMMA InitInv == ASSUME Init PROVE Inv
<1>1. OrdersApart
  BY RefreshedApart DEF Init, OrdersApart
<1> QED BY <1>1 DEF Init, Inv, Trading, ActiveWhileTrading, NothingHeldBeyondStop, EndedIsFlat

\* Funding changes what is realized and nothing else.
LEMMA FundingInv ==
  ASSUME Inv, NEW STATE notional, ScheduledFunding(notional) \/ LateFunding(notional)
  PROVE  Inv'
BY DEF Inv, ScheduledFunding, LateFunding, Fixed, Trading, ActiveWhileTrading, OrdersApart,
       NothingHeldBeyondStop, StopIsTouched, IsLong, EndedIsFlat

\* execute_stop_loss.
LEMMA StopInv == ASSUME Inv, StopCarried \/ StopOpened PROVE Inv'
<1> USE DEF Inv, StopCarried, StopOpened, Fixed
<1>1. StopLoss
  OBVIOUS
<1>2. /\ DOMAIN positions' \subseteq DOMAIN positions
      /\ StopIsTouched => DOMAIN positions' = {}
      /\ active' \in BOOLEAN
      /\ ~active' => ~active \/ DOMAIN positions' = {}
  BY <1>1, StopLossDomain
<1>3. active
  BY DEF Trading, ActiveWhileTrading
<1>4. phase' \in {"first pass", "late funding"} /\ (phase' = "first pass" => active')
  OBVIOUS
<1>5. OrdersApart'
  BY <1>2 DEF OrdersApart
<1>6. NothingHeldBeyondStop'
  BY <1>2 DEF NothingHeldBeyondStop, StopIsTouched, IsLong
<1>7. EndedIsFlat'
  BY <1>2, <1>3, <1>4 DEF EndedIsFlat
<1> QED BY <1>2, <1>4, <1>5, <1>6, <1>7 DEF Trading, ActiveWhileTrading

\* The opening and the closing pass.
LEMMA PassInv ==
  ASSUME Inv, NEW STATE touched, OpenPass(touched) \/ ClosePass(touched)
  PROVE  Inv'
<1> USE DEF Inv, Fixed
<1>1. phase \in {"first pass", "second pass"} /\ phase' \in {"second pass", "opened"}
  BY DEF OpenPass, ClosePass, NextPass
<1>2. active /\ active' /\ strategy' = strategy
  BY <1>1 DEF Trading, ActiveWhileTrading, OpenPass, ClosePass
<1>3. OrdersApart'
  <2>1. CASE OpenPass(touched)
    <3> DEFINE filled == (pending \cap touched) \ DOMAIN positions
    <3>1. DOMAIN positions' \subseteq DOMAIN positions \cup filled
      BY <2>1, OpenDomain DEF OpenPass
    <3>2. pending' = pending \ filled
      BY <2>1 DEF OpenPass
    <3> QED BY <3>1, <3>2 DEF OrdersApart
  <2>2. CASE ClosePass(touched)
    <3>1. DOMAIN positions' \subseteq DOMAIN positions
      BY <2>2, CloseDomain DEF ClosePass
    <3> QED BY <2>2, <3>1 DEF ClosePass, OrdersApart
  <2> QED BY <2>1, <2>2
<1> QED BY <1>1, <1>2, <1>3 DEF Trading, ActiveWhileTrading, NothingHeldBeyondStop, EndedIsFlat

\* The liquidation check.
LEMMA LiquidationInv ==
  ASSUME Inv, NEW STATE equity, NEW STATE used, Liquidation(equity, used)
  PROVE  Inv'
<1> USE DEF Inv, Liquidation, Fixed
<1>1. \/ UNCHANGED <<positions, active>>
      \/ DOMAIN positions' = {} /\ active' = FALSE
  BY CloseDomain
<1> QED BY <1>1 DEF Trading, ActiveWhileTrading, OrdersApart, NothingHeldBeyondStop, StopIsTouched,
                    IsLong, EndedIsFlat

\* The orders for the next candle.
LEMMA OrdersInv ==
  ASSUME Inv, NEW STATE equity, NEW STATE used, Orders(equity, used)
  PROVE  Inv'
<1> USE DEF Inv, Orders
<1>1. OrdersApart'
  BY RefreshedApart DEF OrdersApart
<1>2. (phase' = "funding" /\ active) \/ phase' = "done"
  OBVIOUS
<1>3. EndedIsFlat'
  BY <1>2 DEF EndedIsFlat
<1> QED BY <1>1, <1>2, <1>3 DEF Trading, ActiveWhileTrading, NothingHeldBeyondStop

\* Nothing happens.
LEMMA StutterInv == ASSUME Inv, UNCHANGED vars PROVE Inv'
BY DEF Inv, vars, Trading, ActiveWhileTrading, OrdersApart, NothingHeldBeyondStop, StopIsTouched,
       IsLong, EndedIsFlat

-----------------------------------------------------------------------------
\* Every run of the backtest keeps the invariant.
THEOREM GridEngineInv == Spec => []Inv
<1>1. Init => Inv
  BY InitInv
<1>2. Inv /\ [Next]_vars => Inv'
  <2> SUFFICES ASSUME Inv, [Next]_vars PROVE Inv'
    OBVIOUS
  <2> QED BY FundingInv, StopInv, PassInv, LiquidationInv, OrdersInv, StutterInv DEF Next, Done
<1> QED BY <1>1, <1>2, PTL DEF Spec

\* And so does every run of the optimizer's engine.
THEOREM CompactEngineInv == CompactSpec => []Inv
<1>1. CompactInit => Inv
  BY InitInv DEF CompactInit
<1>2. Inv /\ [CompactNext]_<<vars, totals>> => Inv'
  <2> SUFFICES ASSUME Inv, [CompactNext]_<<vars, totals>> PROVE Inv'
    OBVIOUS
  <2> QED BY FundingInv, StopInv, PassInv, LiquidationInv, OrdersInv, StutterInv DEF CompactNext, Done
<1> QED BY <1>1, <1>2, PTL DEF CompactSpec

\* Both engines: a grid never has a position and an order.
THEOREM GridsHaveOneOrTheOther == (Spec => []OrdersApart) /\ (CompactSpec => []OrdersApart)
<1>1. Inv => OrdersApart
  BY DEF Inv
<1> QED BY <1>1, GridEngineInv, CompactEngineInv, PTL

\* Both engines: after a candle that touched the stop price nothing is held.
THEOREM StopLeavesNothing ==
  (Spec => []NothingHeldBeyondStop) /\ (CompactSpec => []NothingHeldBeyondStop)
<1>1. Inv => NothingHeldBeyondStop
  BY DEF Inv
<1> QED BY <1>1, GridEngineInv, CompactEngineInv, PTL

\* Both engines: a run that has ended holds nothing.
THEOREM EndedRunsAreFlat == (Spec => []EndedIsFlat) /\ (CompactSpec => []EndedIsFlat)
<1>1. Inv => EndedIsFlat
  BY DEF Inv
<1> QED BY <1>1, GridEngineInv, CompactEngineInv, PTL

\* Both engines: what PositionsAreSound says of positions and orders, the stop and the end.
THEOREM PositionsSound == (Spec => []PositionsAreSound) /\ (CompactSpec => []PositionsAreSound)
<1>1. Inv => PositionsAreSound
  BY DEF Inv, PositionsAreSound
<1> QED BY <1>1, GridEngineInv, CompactEngineInv, PTL

-----------------------------------------------------------------------------
(* Sums over a finite set.                                                 *)

\* A set with 0 that is closed under the next number has every number.
LEMMA NatInduct ==
  ASSUME NEW P, 0 \in P, \A n \in Nat : n \in P => n + 1 \in P
  PROVE  Nat \subseteq P
<1> SUFFICES ASSUME Nat \ P # {} PROVE FALSE
  OBVIOUS
<1> DEFINE T == Nat \ P
           R == OpToRel(<, Nat)
<1>1. IsWellFoundedOn(R, Nat)
  BY NatLessThanWellFounded
<1>2. T \subseteq Nat /\ T # {}
  OBVIOUS
<1> HIDE DEF R, T
<1>3. PICK x \in T : \A y \in T : <<y, x>> \notin R
  BY <1>1, <1>2, WFMin
<1>4. x # 0 /\ x \in Nat
  BY <1>3 DEF T
<1>5. x - 1 \in Nat /\ x - 1 < x /\ (x - 1) + 1 = x
  BY <1>4
<1>6. <<x - 1, x>> \in R
  BY <1>4, <1>5 DEF R, OpToRel
<1>7. x - 1 \in P
  BY <1>3, <1>5, <1>6 DEF T
<1> QED BY <1>3, <1>5, <1>7 DEF T

\* A set that has a subset of S whenever it has its smaller ones has every subset of S.
LEMMA SubsetInduct ==
  ASSUME NEW S, IsFiniteSet(S), NEW P,
         \A T \in SUBSET S : (\A U \in SUBSET T : U # T => U \in P) => T \in P
  PROVE  SUBSET S \subseteq P
<1> SUFFICES ASSUME (SUBSET S) \ P # {} PROVE FALSE
  OBVIOUS
<1> DEFINE F == FiniteSubsetsOf(S)
           Q == (SUBSET S) \ P
           R == StrictSubsetOrdering(S)
<1>1. IsWellFoundedOn(R, F)
  BY FS_StrictSubsetOrderingWellFounded
<1>2. F = SUBSET S
  BY FS_Subset DEF FiniteSubsetsOf
<1>3. Q \subseteq F /\ Q # {}
  BY <1>2
<1> HIDE DEF R, F, Q
<1>4. PICK T \in Q : \A U \in Q : <<U, T>> \notin R
  BY <1>1, <1>3, WFMin
<1>5. T \in SUBSET S /\ T \notin P
  BY <1>4 DEF Q
<1>6. ASSUME NEW U \in SUBSET T, U # T PROVE U \in P
  <2>1. <<U, T>> \in R
    BY <1>5, <1>6 DEF R, StrictSubsetOrdering
  <2> QED BY <1>4, <1>5, <2>1 DEF Q
<1> QED BY <1>5, <1>6

\* The fold of the community module: the element it takes next, and what it makes of it.
Choice(s) == CHOOSE x \in s : TRUE
Body(f, h, s) == IF s = {} THEN 0 ELSE f[Choice(s)] + h[s \ {Choice(s)}]

\* The function that the fold of the community module chooses exists for a finite set.
LEMMA IterExists ==
  ASSUME NEW S, IsFiniteSet(S), NEW f
  PROVE  \E h : h = [s \in SUBSET S |-> Body(f, h, s)]
<1> DEFINE UpTo(n) == {s \in SUBSET S : Cardinality(s) <= n}
           Good(n, h) == h = [s \in UpTo(n) |-> Body(f, h, s)]
           P == {n \in Nat : \E h : Good(n, h)}
<1>0. \A s \in SUBSET S : IsFiniteSet(s) /\ Cardinality(s) \in Nat
  BY FS_Subset, FS_CardinalityType
<1>1. 0 \in P
  <2> DEFINE h == [s \in UpTo(0) |-> 0]
  <2>1. \A s \in UpTo(0) : s = {}
    BY <1>0, FS_EmptySet
  <2>2. Good(0, h)
    BY <2>1 DEF Body
  <2> QED BY <2>2
<1>2. ASSUME NEW n \in Nat, n \in P PROVE n + 1 \in P
  <2> PICK m : m = n + 1
    OBVIOUS
  <2>m. m \in Nat
    OBVIOUS
  <2>1. PICK h : Good(n, h)
    BY <1>2
  <2> DEFINE g == [s \in UpTo(m) |-> Body(f, h, s)]
  <2>2. \A s \in UpTo(n) : s \in UpTo(m) /\ g[s] = h[s]
    BY <2>1, <1>0, <2>m
  <2>3. ASSUME NEW s \in UpTo(m), s # {} PROVE s \ {Choice(s)} \in UpTo(n)
    <3>1. Choice(s) \in s
      BY <2>3 DEF Choice
    <3> QED BY <3>1, <1>0, FS_RemoveElement, <2>m
  <2>4. \A s \in UpTo(m) : Body(f, h, s) = Body(f, g, s)
    BY <2>2, <2>3 DEF Body
  <2>5. Good(m, g)
    BY <2>4
  <2> HIDE DEF g, Good
  <2> QED BY <2>5, <2>m
<1>3. Nat \subseteq P
  <2> HIDE DEF P
  <2> QED BY <1>1, <1>2, NatInduct
<1>4. PICK n \in Nat : n = Cardinality(S)
  BY FS_CardinalityType
<1>5. UpTo(n) = SUBSET S
  BY <1>4, <1>0, FS_Subset
<1>6. PICK h : Good(n, h)
  BY <1>3
<1> QED BY <1>5, <1>6

\* The function that it chooses.
Iter(f, S) == CHOOSE h : h = [s \in SUBSET S |-> Body(f, h, s)]

\* The sum over a set is what that function gives for it.
LEMMA SumIter ==
  ASSUME NEW S, NEW f
  PROVE SumFunctionOnSet(f, S) = Iter(f, S)[S]
BY DEF SumFunctionOnSet, FoldFunctionOnSet, MapThenFoldSet, Iter, Body, Choice

\* So the chosen function is one.
LEMMA IterEq ==
  ASSUME NEW S, IsFiniteSet(S), NEW f
  PROVE  Iter(f, S) = [s \in SUBSET S |-> Body(f, Iter(f, S), s)]
BY IterExists DEF Iter

\* And it is given by its equation.
LEMMA IterAt ==
  ASSUME NEW S, IsFiniteSet(S), NEW f
  PROVE  \A s \in SUBSET S : Iter(f, S)[s] = Body(f, Iter(f, S), s)
<1> DEFINE F(h) == [s \in SUBSET S |-> Body(f, h, s)]
<1>1. Iter(f, S) = F(Iter(f, S))
  BY IterEq
<1>2. \A h : \A s \in SUBSET S : F(h)[s] = Body(f, h, s)
  OBVIOUS
<1> HIDE DEF F
<1> QED BY <1>1, <1>2

\* It does not matter in which set.
LEMMA IterSub ==
  ASSUME NEW S, IsFiniteSet(S), NEW f, NEW T \in SUBSET S
  PROVE  Iter(f, S)[T] = Iter(f, T)[T]
<1> DEFINE h == Iter(f, S)
           g == Iter(f, T)
           P == {U \in SUBSET T : h[U] = g[U]}
<1>0. IsFiniteSet(T)
  BY FS_Subset
<1>1. \A U \in SUBSET T : h[U] = Body(f, h, U) /\ g[U] = Body(f, g, U)
  BY IterAt, <1>0
<1> HIDE DEF h, g
<1>2. ASSUME NEW U \in SUBSET T, \A V \in SUBSET U : V # U => V \in P PROVE U \in P
  <2>1. CASE U = {}
    BY <2>1, <1>1 DEF Body
  <2>2. CASE U # {}
    <3>1. Choice(U) \in U
      BY <2>2 DEF Choice
    <3>2. U \ {Choice(U)} \in P
      BY <1>2, <3>1
    <3> QED BY <2>2, <3>2, <1>1 DEF Body
  <2> QED BY <2>1, <2>2
<1>3. SUBSET T \subseteq P
  <2> HIDE DEF P
  <2> QED BY <1>0, <1>2, SubsetInduct
<1> QED BY <1>3 DEF h, g

\* Nothing adds up to 0.
LEMMA SumEmpty == ASSUME NEW f PROVE SumFunctionOnSet(f, {}) = 0
<1> PICK S : S = {}
  OBVIOUS
<1>1. IsFiniteSet(S)
  BY FS_EmptySet
<1>2. Iter(f, S)[S] = Body(f, Iter(f, S), S)
  BY <1>1, IterAt
<1>3. Iter(f, S)[S] = 0
  BY <1>2 DEF Body

<1> QED BY <1>3, SumIter

\* Integers add up to one.
LEMMA SumInt ==
  ASSUME NEW S, IsFiniteSet(S), NEW f, \A x \in S : f[x] \in Int
  PROVE  SumFunctionOnSet(f, S) \in Int
<1> DEFINE h == Iter(f, S)
           P == {U \in SUBSET S : h[U] \in Int}
<1>1. \A U \in SUBSET S : h[U] = Body(f, h, U)
  BY IterAt
<1> HIDE DEF h
<1>2. ASSUME NEW U \in SUBSET S, \A V \in SUBSET U : V # U => V \in P PROVE U \in P
  <2>1. CASE U = {}
    <3>1. h[U] = 0
      BY <2>1, <1>1 DEF Body
    <3> QED BY <3>1
  <2>2. CASE U # {}
    <3>1. Choice(U) \in U
      BY <2>2 DEF Choice
    <3>2. U \ {Choice(U)} \in P
      BY <1>2, <3>1
    <3>3. h[U] = f[Choice(U)] + h[U \ {Choice(U)}]
      BY <2>2, <1>1 DEF Body
    <3> QED BY <3>1, <3>2, <3>3
  <2> QED BY <2>1, <2>2
<1>3. SUBSET S \subseteq P
  <2> HIDE DEF P
  <2> QED BY <1>2, SubsetInduct
<1> QED BY <1>3, SumIter DEF h

\* A sum is any of its terms and the sum of the others: the choices of the fold do not matter.
LEMMA SumRemove ==
  ASSUME NEW S, IsFiniteSet(S), NEW f, \A x \in S : f[x] \in Int, NEW x \in S
  PROVE  SumFunctionOnSet(f, S) = f[x] + SumFunctionOnSet(f, S \ {x})
<1> DEFINE h == Iter(f, S)
           P == {U \in SUBSET S : \A y \in U : h[U] = f[y] + h[U \ {y}]}
<1>1. \A U \in SUBSET S : h[U] = Body(f, h, U) /\ h[U] \in Int
  <2>1. ASSUME NEW U \in SUBSET S PROVE h[U] \in Int
    BY IterSub, SumIter, SumInt, FS_Subset
  <2> QED BY <2>1, IterAt
<1>0. h[S \ {x}] = SumFunctionOnSet(f, S \ {x})
  BY IterSub, SumIter
<1> HIDE DEF h
<1>2. ASSUME NEW U \in SUBSET S, \A V \in SUBSET U : V # U => V \in P PROVE U \in P
  <2> SUFFICES ASSUME NEW y \in U PROVE h[U] = f[y] + h[U \ {y}]
    OBVIOUS
  <2> DEFINE c == Choice(U)
  <2>1. c \in U
    BY DEF Choice
  <2>2. h[U] = f[c] + h[U \ {c}]
    BY <1>1, <2>1 DEF Body
  <2> HIDE DEF c
  <2>3. CASE y = c
    BY <2>2, <2>3
  <2>4. CASE y # c
    <3>1. U \ {c} \in P /\ U \ {y} \in P
      BY <1>2, <2>1
    <3>2. y \in U \ {c} /\ c \in U \ {y}
      BY <2>4, <2>1
    <3>3. h[U \ {c}] = f[y] + h[(U \ {c}) \ {y}] /\ h[U \ {y}] = f[c] + h[(U \ {y}) \ {c}]
      BY <3>1, <3>2
    <3>4. (U \ {c}) \ {y} = (U \ {y}) \ {c}
      OBVIOUS
    <3>5. f[c] \in Int /\ f[y] \in Int /\ h[(U \ {c}) \ {y}] \in Int
      BY <1>1, <2>1
    <3>6. PICK a, b, r : a = f[c] /\ b = f[y] /\ r = h[(U \ {c}) \ {y}]
      OBVIOUS
    <3>7. a \in Int /\ b \in Int /\ r \in Int
      BY <3>5, <3>6
    <3>8. h[U] = a + (b + r) /\ h[U \ {y}] = a + r
      BY <2>2, <3>3, <3>4, <3>6
    <3>9. h[U] = b + h[U \ {y}]
      BY <3>7, <3>8
    <3> QED BY <3>6, <3>9
  <2> QED BY <2>3, <2>4
<1>3. SUBSET S \subseteq P
  <2> HIDE DEF P
  <2> QED BY <1>2, SubsetInduct
<1>4. h[S] = f[x] + h[S \ {x}]
  BY <1>3
<1> QED BY <1>4, <1>0, SumIter DEF h

\* Induction over the elements of a finite set.
LEMMA SetInduct ==
  ASSUME NEW S, IsFiniteSet(S), NEW P, {} \in P,
         \A T \in SUBSET S : \A x \in S \ T : T \in P => T \cup {x} \in P
  PROVE  S \in P
<1> DEFINE Q == {T \in SUBSET S : T \in P}
<1>1. ASSUME NEW T \in SUBSET S, \A U \in SUBSET T : U # T => U \in Q PROVE T \in Q
  <2>1. CASE T = {}
    BY <2>1
  <2>2. CASE T # {}
    <3>1. PICK x \in T : TRUE
      BY <2>2
    <3>2. T \ {x} \in P /\ x \in S \ (T \ {x}) /\ T = (T \ {x}) \cup {x}
      BY <1>1, <3>1
    <3> QED BY <3>2
  <2> QED BY <2>1, <2>2
<1>2. SUBSET S \subseteq Q
  <2> HIDE DEF Q
  <2> QED BY <1>1, SubsetInduct
<1> QED BY <1>2

\* One more term.
LEMMA SumAdd ==
  ASSUME NEW S, IsFiniteSet(S), NEW x, x \notin S, NEW f, \A y \in S \cup {x} : f[y] \in Int
  PROVE  SumFunctionOnSet(f, S \cup {x}) = f[x] + SumFunctionOnSet(f, S)
<1> PICK T : T = S \cup {x}
  OBVIOUS
<1>1. IsFiniteSet(T) /\ x \in T /\ T \ {x} = S
  BY FS_AddElement
<1> QED BY <1>1, SumRemove

\* The same terms add up to the same.
LEMMA SumSame ==
  ASSUME NEW S, IsFiniteSet(S), NEW f, NEW g, \A x \in S : f[x] \in Int /\ f[x] = g[x]
  PROVE  SumFunctionOnSet(f, S) = SumFunctionOnSet(g, S)
<1> DEFINE P == {T \in SUBSET S : SumFunctionOnSet(f, T) = SumFunctionOnSet(g, T)}
<1>1. {} \in P
  BY SumEmpty
<1>2. ASSUME NEW T \in SUBSET S, NEW x \in S \ T, T \in P PROVE T \cup {x} \in P
  <2>1. IsFiniteSet(T)
    BY FS_Subset
  <2>2. /\ SumFunctionOnSet(f, T \cup {x}) = f[x] + SumFunctionOnSet(f, T)
        /\ SumFunctionOnSet(g, T \cup {x}) = g[x] + SumFunctionOnSet(g, T)
    BY <2>1, SumAdd
  <2> QED BY <1>2, <2>2
<1> HIDE DEF P
<1>3. S \in P
  BY <1>1, <1>2, SetInduct
<1> QED BY <1>3 DEF P

\* Adding term by term adds the sums.
LEMMA SumPlus ==
  ASSUME NEW S, IsFiniteSet(S), NEW f, NEW g, NEW h,
         \A x \in S : f[x] \in Int /\ g[x] \in Int /\ h[x] = f[x] + g[x]
  PROVE  SumFunctionOnSet(h, S) = SumFunctionOnSet(f, S) + SumFunctionOnSet(g, S)
<1> DEFINE P == {T \in SUBSET S : SumFunctionOnSet(h, T) =
                                    SumFunctionOnSet(f, T) + SumFunctionOnSet(g, T)}
<1>1. {} \in P
  <2>1. \A u : SumFunctionOnSet(u, {}) = 0
    BY SumEmpty
  <2> QED BY <2>1
<1>2. ASSUME NEW T \in SUBSET S, NEW x \in S \ T, T \in P PROVE T \cup {x} \in P
  <2>1. IsFiniteSet(T)
    BY FS_Subset
  <2>0. \A y \in T \cup {x} : f[y] \in Int /\ g[y] \in Int /\ h[y] \in Int
    OBVIOUS
  <2>2. /\ SumFunctionOnSet(f, T \cup {x}) = f[x] + SumFunctionOnSet(f, T)
        /\ SumFunctionOnSet(g, T \cup {x}) = g[x] + SumFunctionOnSet(g, T)
        /\ SumFunctionOnSet(h, T \cup {x}) = h[x] + SumFunctionOnSet(h, T)
    BY <2>0, <2>1, SumAdd
  <2>3. SumFunctionOnSet(f, T) \in Int /\ SumFunctionOnSet(g, T) \in Int
    BY <2>1, SumInt
  <2>4. PICK a, b, c, d : /\ a = f[x] /\ b = g[x]
                          /\ c = SumFunctionOnSet(f, T) /\ d = SumFunctionOnSet(g, T)
    OBVIOUS
  <2>5. a \in Int /\ b \in Int /\ c \in Int /\ d \in Int
    BY <2>3, <2>4
  <2>6. (a + b) + (c + d) = (a + c) + (b + d)
    BY <2>5
  <2> QED BY <1>2, <2>2, <2>4, <2>6
<1> HIDE DEF P
<1>3. S \in P
  BY <1>1, <1>2, SetInduct
<1> QED BY <1>3 DEF P

\* A factor of every term is one of the sum.
LEMMA SumTimes ==
  ASSUME NEW S, IsFiniteSet(S), NEW k \in Int, NEW f, NEW h,
         \A x \in S : f[x] \in Int /\ h[x] = k * f[x]
  PROVE  SumFunctionOnSet(h, S) = k * SumFunctionOnSet(f, S)
<1> DEFINE P == {T \in SUBSET S : SumFunctionOnSet(h, T) = k * SumFunctionOnSet(f, T)}
<1>1. {} \in P
  <2>1. \A u : SumFunctionOnSet(u, {}) = 0
    BY SumEmpty
  <2> QED BY <2>1
<1>2. ASSUME NEW T \in SUBSET S, NEW x \in S \ T, T \in P PROVE T \cup {x} \in P
  <2>1. IsFiniteSet(T)
    BY FS_Subset
  <2>0. \A y \in T \cup {x} : f[y] \in Int /\ h[y] \in Int
    OBVIOUS
  <2>2. /\ SumFunctionOnSet(f, T \cup {x}) = f[x] + SumFunctionOnSet(f, T)
        /\ SumFunctionOnSet(h, T \cup {x}) = h[x] + SumFunctionOnSet(h, T)
    BY <2>0, <2>1, SumAdd
  <2>3. SumFunctionOnSet(f, T) \in Int
    BY <2>1, SumInt
  <2>4. PICK a, c : a = f[x] /\ c = SumFunctionOnSet(f, T)
    OBVIOUS
  <2>5. a \in Int /\ c \in Int
    BY <2>3, <2>4
  <2>6. k * a + k * c = k * (a + c)
    BY <2>5
  <2> QED BY <1>2, <2>2, <2>4, <2>6
<1> HIDE DEF P
<1>3. S \in P
  BY <1>1, <1>2, SetInduct
<1> QED BY <1>3 DEF P

\* Subtracting term by term subtracts the sums.
LEMMA SumMinus ==
  ASSUME NEW S, IsFiniteSet(S), NEW f, NEW g, NEW h,
         \A x \in S : f[x] \in Int /\ g[x] \in Int /\ h[x] = f[x] - g[x]
  PROVE  SumFunctionOnSet(h, S) = SumFunctionOnSet(f, S) - SumFunctionOnSet(g, S)
<1>1. \A x \in S : h[x] \in Int /\ g[x] \in Int /\ f[x] = h[x] + g[x]
  OBVIOUS
<1>2. SumFunctionOnSet(f, S) = SumFunctionOnSet(h, S) + SumFunctionOnSet(g, S)
  BY <1>1, SumPlus
<1>3. SumFunctionOnSet(f, S) \in Int /\ SumFunctionOnSet(g, S) \in Int /\ SumFunctionOnSet(h, S) \in Int
  BY <1>1, SumInt
<1> QED BY <1>2, <1>3

\* What is not negative adds up to no less.
LEMMA SumNat ==
  ASSUME NEW S, IsFiniteSet(S), NEW f, \A x \in S : f[x] \in Nat
  PROVE  SumFunctionOnSet(f, S) \in Nat
<1> DEFINE P == {T \in SUBSET S : SumFunctionOnSet(f, T) \in Nat}
<1>1. {} \in P
  <2>1. \A u : SumFunctionOnSet(u, {}) = 0
    BY SumEmpty
  <2> QED BY <2>1
<1>2. ASSUME NEW T \in SUBSET S, NEW x \in S \ T, T \in P PROVE T \cup {x} \in P
  <2>1. IsFiniteSet(T)
    BY FS_Subset
  <2>0. \A y \in T \cup {x} : f[y] \in Int
    OBVIOUS
  <2>2. SumFunctionOnSet(f, T \cup {x}) = f[x] + SumFunctionOnSet(f, T)
    BY <2>0, <2>1, SumAdd
  <2>3. PICK a : a = f[x]
    OBVIOUS
  <2>4. a \in Nat
    BY <2>3
  <2> QED BY <1>2, <2>2, <2>3, <2>4
<1> HIDE DEF P
<1>3. S \in P
  BY <1>1, <1>2, SetInduct
<1> QED BY <1>3 DEF P

\* Larger terms add up to a larger sum.
LEMMA SumAtMost ==
  ASSUME NEW S, IsFiniteSet(S), NEW f, NEW g,
         \A x \in S : f[x] \in Int /\ g[x] \in Int /\ f[x] <= g[x]
  PROVE  SumFunctionOnSet(f, S) <= SumFunctionOnSet(g, S)
<1> DEFINE h == [x \in S |-> g[x] - f[x]]
<1>1. \A x \in S : h[x] \in Nat
  OBVIOUS
<1>2. SumFunctionOnSet(h, S) \in Nat
  BY <1>1, SumNat
<1>3. SumFunctionOnSet(h, S) = SumFunctionOnSet(g, S) - SumFunctionOnSet(f, S)
  BY SumMinus
<1>4. SumFunctionOnSet(f, S) \in Int /\ SumFunctionOnSet(g, S) \in Int
  BY SumInt
<1> HIDE DEF h
<1> QED BY <1>2, <1>3, <1>4

\* The sum over two sets that share nothing.
LEMMA SumUnion ==
  ASSUME NEW S, NEW T, IsFiniteSet(S), IsFiniteSet(T), S \cap T = {},
         NEW f, \A x \in S \cup T : f[x] \in Int
  PROVE  SumFunctionOnSet(f, S \cup T) = SumFunctionOnSet(f, S) + SumFunctionOnSet(f, T)
<1> DEFINE P == {U \in SUBSET T : SumFunctionOnSet(f, S \cup U) =
                                    SumFunctionOnSet(f, S) + SumFunctionOnSet(f, U)}
<1>0. SumFunctionOnSet(f, S) \in Int
  BY SumInt
<1>1. {} \in P
  <2>1. \A u : SumFunctionOnSet(u, {}) = 0
    BY SumEmpty
  <2>2. S \cup {} = S
    OBVIOUS
  <2> QED BY <1>0, <2>1, <2>2
<1>2. ASSUME NEW U \in SUBSET T, NEW x \in T \ U, U \in P PROVE U \cup {x} \in P
  <2>1. IsFiniteSet(U) /\ IsFiniteSet(S \cup U)
    BY FS_Subset, FS_Union
  <2>2. x \notin S \cup U /\ S \cup (U \cup {x}) = (S \cup U) \cup {x}
    OBVIOUS
  <2>3. SumFunctionOnSet(f, U \cup {x}) = f[x] + SumFunctionOnSet(f, U)
    BY <2>1, SumAdd
  <2>4. SumFunctionOnSet(f, (S \cup U) \cup {x}) = f[x] + SumFunctionOnSet(f, S \cup U)
    BY <2>1, <2>2, SumAdd
  <2>5. SumFunctionOnSet(f, U) \in Int
    BY <2>1, SumInt
  <2>6. PICK a, b, c : a = f[x] /\ b = SumFunctionOnSet(f, S) /\ c = SumFunctionOnSet(f, U)
    OBVIOUS
  <2>7. a \in Int /\ b \in Int /\ c \in Int
    BY <1>0, <2>5, <2>6
  <2>8. a + (b + c) = b + (a + c)
    BY <2>7
  <2> QED BY <1>2, <2>2, <2>3, <2>4, <2>6, <2>8
<1> HIDE DEF P
<1>3. T \in P
  BY <1>1, <1>2, SetInduct
<1> QED BY <1>3 DEF P

\* Leaving out terms that are not negative makes a sum no larger.
LEMMA SumSubset ==
  ASSUME NEW S, IsFiniteSet(S), NEW T \in SUBSET S,
         NEW f, \A x \in S : f[x] \in Int, \A x \in S \ T : f[x] >= 0
  PROVE  SumFunctionOnSet(f, T) <= SumFunctionOnSet(f, S)
<1>1. IsFiniteSet(T) /\ IsFiniteSet(S \ T)
  BY FS_Subset, FS_Difference
<1>2. T \cup (S \ T) = S /\ T \cap (S \ T) = {}
  OBVIOUS
<1>3. SumFunctionOnSet(f, S) = SumFunctionOnSet(f, T) + SumFunctionOnSet(f, S \ T)
  BY <1>1, <1>2, SumUnion
<1>4. SumFunctionOnSet(f, T) \in Int
  BY <1>1, SumInt
<1>5. SumFunctionOnSet(f, S \ T) \in Nat
  BY <1>1, SumNat
<1> QED BY <1>3, <1>4, <1>5

\* The sum over two sets of terms that come from two functions.
LEMMA SumJoin ==
  ASSUME NEW S, NEW T, IsFiniteSet(S), IsFiniteSet(T), S \cap T = {},
         NEW f, \A x \in S \cup T : f[x] \in Int,
         NEW g, \A x \in S : g[x] = f[x], NEW h, \A x \in T : h[x] = f[x]
  PROVE  SumFunctionOnSet(f, S \cup T) = SumFunctionOnSet(g, S) + SumFunctionOnSet(h, T)
<1>1. SumFunctionOnSet(f, S) = SumFunctionOnSet(g, S)
  BY SumSame
<1>2. SumFunctionOnSet(f, T) = SumFunctionOnSet(h, T)
  BY SumSame
<1> QED BY <1>1, <1>2, SumUnion

\* The sum of the opposites.
LEMMA SumNegate ==
  ASSUME NEW S, IsFiniteSet(S), NEW f, NEW h, \A x \in S : f[x] \in Int /\ h[x] = -f[x]
  PROVE  SumFunctionOnSet(h, S) = -SumFunctionOnSet(f, S)
<1> DEFINE P == {T \in SUBSET S : SumFunctionOnSet(h, T) = -SumFunctionOnSet(f, T)}
<1>1. {} \in P
  <2>1. \A u : SumFunctionOnSet(u, {}) = 0
    BY SumEmpty
  <2> QED BY <2>1
<1>2. ASSUME NEW T \in SUBSET S, NEW x \in S \ T, T \in P PROVE T \cup {x} \in P
  <2>1. IsFiniteSet(T)
    BY FS_Subset
  <2>2. \A y \in T \cup {x} : f[y] \in Int /\ h[y] \in Int
    OBVIOUS
  <2>3. /\ SumFunctionOnSet(f, T \cup {x}) = f[x] + SumFunctionOnSet(f, T)
        /\ SumFunctionOnSet(h, T \cup {x}) = h[x] + SumFunctionOnSet(h, T)
    BY <2>1, <2>2, SumAdd
  <2>4. SumFunctionOnSet(f, T) \in Int
    BY <2>1, <2>2, SumInt
  <2>5. PICK a, c : a = f[x] /\ c = SumFunctionOnSet(f, T)
    OBVIOUS
  <2>6. -a + -c = -(a + c)
    BY <2>2, <2>4, <2>5
  <2> QED BY <1>2, <2>3, <2>5, <2>6
<1> HIDE DEF P
<1>3. S \in P
  BY <1>1, <1>2, SetInduct
<1> QED BY <1>3 DEF P

-----------------------------------------------------------------------------
(* Rounding.                                                               *)

\* A quotient, its remainder, and the number they are of.
LEMMA Division ==
  ASSUME NEW a \in Nat, NEW b \in Nat, b > 0
  PROVE  /\ a \div b \in Nat /\ a % b \in Nat
         /\ a = b * (a \div b) + (a % b) /\ a % b < b
OBVIOUS

\* A factor keeps the order.
LEMMA Products ==
  ASSUME NEW b \in Nat, NEW p \in Int, NEW q \in Int, p <= q
  PROVE  b * p <= b * q /\ b * p \in Int /\ b * q \in Int
OBVIOUS

\* round() is off by at most a half.
LEMMA RQ1 ==
  ASSUME NEW a \in Nat, NEW b \in Nat, b > 0
  PROVE  /\ RoundedQuotient(a, b) \in Nat
         /\ 2 * a - b <= 2 * (b * RoundedQuotient(a, b))
         /\ 2 * (b * RoundedQuotient(a, b)) <= 2 * a + b
<1> PICK q, r : q = a \div b /\ r = a % b
  OBVIOUS
<1>1. q \in Nat /\ r \in Nat /\ a = b * q + r /\ r < b
  BY Division
<1>2. PICK w : w = b * q
  OBVIOUS
<1>3. w \in Int /\ b * (q + 1) = w + b
  BY <1>1, <1>2
<1>4. RoundedQuotient(a, b) = IF 2 * r > b \/ (2 * r = b /\ q % 2 = 1) THEN q + 1 ELSE q
  BY DEF RoundedQuotient
<1>5. CASE 2 * r > b \/ (2 * r = b /\ q % 2 = 1)
  <2>1. RoundedQuotient(a, b) = q + 1
    BY <1>4, <1>5
  <2>2. 2 * r >= b
    BY <1>1, <1>5
  <2>3. 2 * a - b <= 2 * (w + b) /\ 2 * (w + b) <= 2 * a + b
    BY <1>1, <1>2, <1>3, <2>2
  <2> QED BY <2>1, <2>3, <1>3, <1>1
<1>6. CASE ~(2 * r > b \/ (2 * r = b /\ q % 2 = 1))
  <2>1. RoundedQuotient(a, b) = q
    BY <1>4, <1>6
  <2>2. 2 * r <= b
    BY <1>1, <1>6
  <2>3. 2 * a - b <= 2 * w /\ 2 * w <= 2 * a + b
    BY <1>1, <1>2, <1>3, <2>2
  <2> QED BY <2>1, <2>3, <1>2, <1>1
<1> QED BY <1>5, <1>6

\* And it keeps the order.
LEMMA RQ2 ==
  ASSUME NEW a \in Nat, NEW c \in Nat, a <= c, NEW b \in Nat, b > 0
  PROVE  RoundedQuotient(a, b) <= RoundedQuotient(c, b)
<1> PICK q, r : q = a \div b /\ r = a % b
  OBVIOUS
<1> PICK p, s : p = c \div b /\ s = c % b
  OBVIOUS
<1>1. q \in Nat /\ r \in Nat /\ a = b * q + r /\ r < b
  BY Division
<1>2. p \in Nat /\ s \in Nat /\ c = b * p + s /\ s < b
  BY Division
<1>3. q <= p
  <2> SUFFICES ASSUME p + 1 <= q PROVE FALSE
    BY <1>1, <1>2
  <2>1. b * (p + 1) <= b * q
    BY <1>1, <1>2, Products
  <2>2. b * (p + 1) = b * p + b /\ b * p \in Int /\ b * q \in Int
    BY <1>1, <1>2
  <2> QED BY <1>1, <1>2, <2>1, <2>2
<1>4. /\ RoundedQuotient(a, b) = IF 2 * r > b \/ (2 * r = b /\ q % 2 = 1) THEN q + 1 ELSE q
      /\ RoundedQuotient(c, b) = IF 2 * s > b \/ (2 * s = b /\ p % 2 = 1) THEN p + 1 ELSE p
  BY DEF RoundedQuotient
<1>5. CASE q < p
  BY <1>1, <1>2, <1>4, <1>5
<1>6. CASE q = p
  <2>1. r <= s
    BY <1>1, <1>2, <1>6
  <2> QED BY <1>1, <1>2, <1>4, <1>6, <2>1
<1> QED BY <1>1, <1>2, <1>3, <1>5, <1>6

-----------------------------------------------------------------------------
(* Prices, positions and the money.                                        *)

\* The types of positions and of EngineState, and what the lemmas on money take of TypeOK.
PositionType == [entry : Amount, quantity : Amount, fee : Nat]
StateType ==
  [realized : Int, fees : Int, funding : Int, net : Int, stops : Nat,
   reasons : SUBSET {"grid_take_profit", "stop_loss", "liquidation"}]

\* What the schema says of the fields, and what follows for the grid.
LEMMA StrategyFacts ==
  ASSUME strategy \in Strategies
  PROVE  /\ strategy.side \in {"long", "short"}
         /\ strategy.lower \in Amount /\ strategy.step \in Amount /\ strategy.margin \in Amount
         /\ strategy.leverage \in Amount /\ strategy.stop \in Amount
         /\ strategy.tick \in Amount /\ strategy.qstep \in Amount
         /\ strategy.grids \in Nat /\ strategy.grids >= 2
         /\ strategy.maker \in Nat /\ strategy.taker \in Nat /\ strategy.slippage \in Nat
         /\ strategy.least \in Nat /\ strategy.mmr \in Amount /\ strategy.rate \in Int
         /\ strategy.base \in BOOLEAN /\ strategy.reopen \in BOOLEAN /\ strategy.mark \in BOOLEAN
         /\ Unit \in Amount /\ strategy.slippage < Unit /\ strategy.mmr <= Unit
         /\ IsLong => strategy.stop < strategy.lower
         /\ ~IsLong => strategy.stop > strategy.lower + strategy.grids * strategy.step
BY StrategiesAssumption, UnitAssumption DEF StrategyConfig, Amount, IsLong

\* What a candle is.
LEMMA CandleFacts ==
  ASSUME candle \in Candles
  PROVE  /\ candle.open \in Amount /\ candle.close \in Amount
         /\ candle.low \in Amount /\ candle.high \in Amount
         /\ candle.low <= candle.close /\ candle.close <= candle.high
BY CandlesAssumption

\* A strategy has finitely many grids.
LEMMA GridsFinite ==
  ASSUME strategy \in Strategies
  PROVE  IsFiniteSet(Grids)
BY StrategyFacts, FS_Interval DEF Grids

\* Grid lines are prices.
LEMMA LineType ==
  ASSUME strategy \in Strategies, NEW i \in Nat
  PROVE  Line(i) \in Amount
<1>1. strategy.lower \in Nat /\ strategy.lower > 0 /\ strategy.step \in Nat
  BY StrategyFacts DEF Amount
<1>2. i * strategy.step \in Nat
  BY <1>1
<1> QED BY <1>1, <1>2 DEF Line, Amount

\* So are the levels of entries and take profits.
LEMMA LevelType ==
  ASSUME strategy \in Strategies, NEW g \in Grids
  PROVE  EntryLevel(g) \in Amount /\ ExitLevel(g) \in Amount
<1>1. g \in Nat /\ g + 1 \in Nat
  BY StrategyFacts DEF Grids
<1> QED BY <1>1, LineType DEF EntryLevel, ExitLevel

\* Rounding to the tick does not make a price negative.
LEMMA RoundToStepType ==
  ASSUME strategy \in Strategies, NEW parts \in Nat
  PROVE  RoundToStep(parts) \in Nat
<1>1. strategy.tick \in Nat /\ strategy.tick > 0 /\ Unit \in Nat /\ Unit > 0
  BY StrategyFacts DEF Amount
<1>2. Unit * strategy.tick \in Nat /\ Unit * strategy.tick > 0
  BY <1>1
<1>3. RoundedQuotient(parts, Unit * strategy.tick) \in Nat
  BY <1>2, RQ1
<1> QED BY <1>1, <1>3 DEF RoundToStep

\* Entries may round to 0, exits do not.
LEMMA PriceType ==
  ASSUME strategy \in Strategies, NEW level \in Amount
  PROVE  EntryPrice(level) \in Nat /\ ExitPrice(level) \in Amount
<1>1. /\ level \in Nat /\ level > 0 /\ Unit \in Nat /\ strategy.slippage \in Nat
      /\ Unit + strategy.slippage \in Nat /\ Unit - strategy.slippage \in Nat
  BY StrategyFacts DEF Amount
<1>2. level * (Unit + strategy.slippage) \in Nat /\ level * (Unit - strategy.slippage) \in Nat
  BY <1>1
<1>3. /\ RoundToStep(level * (Unit + strategy.slippage)) \in Nat
      /\ RoundToStep(level * (Unit - strategy.slippage)) \in Nat
  BY <1>2, RoundToStepType
<1> QED BY <1>1, <1>3 DEF EntryPrice, ExitPrice, Amount

\* A quantity is not negative.
LEMMA QuantityType ==
  ASSUME strategy \in Strategies, NEW price \in Amount
  PROVE  Quantity(price) \in Nat
<1>1. /\ strategy.margin \in Nat /\ strategy.leverage \in Nat
      /\ strategy.grids \in Nat /\ strategy.grids > 0 /\ strategy.qstep \in Nat /\ strategy.qstep > 0
      /\ price \in Nat /\ price > 0
  BY StrategyFacts DEF Amount
<1>2. Stake \in Nat
  BY <1>1 DEF Stake
<1>3. strategy.grids * price * strategy.qstep \in Nat /\ strategy.grids * price * strategy.qstep > 0
  <2>1. strategy.grids * price \in Nat /\ strategy.grids * price > 0
    BY <1>1
  <2> QED BY <1>1, <2>1
<1>4. Stake \div (strategy.grids * price * strategy.qstep) \in Nat
  BY <1>2, <1>3, Division
<1> QED BY <1>1, <1>4 DEF Quantity

\* An accepted order makes a position.
LEMMA PositionTyped ==
  ASSUME strategy \in Strategies, NEW level \in Amount, NEW rate \in Nat,
         Accepted(EntryPrice(level))
  PROVE  Position(level, rate) \in PositionType
<1> PICK price : price = EntryPrice(level)
  OBVIOUS
<1>1. price \in Nat /\ price > 0
  BY PriceType DEF Accepted
<1> PICK quantity : quantity = Quantity(price)
  OBVIOUS
<1>2. quantity \in Nat /\ quantity > 0
  BY <1>1, QuantityType DEF Accepted, Amount
<1>3. price * quantity * rate \in Nat
  <2>1. price * quantity \in Nat
    BY <1>1, <1>2
  <2> QED BY <2>1
<1> QED BY <1>1, <1>2, <1>3 DEF Position, PositionType, Amount

\* What a close makes is a number.
LEMMA GrossType ==
  ASSUME strategy \in Strategies, NEW position \in PositionType, NEW exit \in Amount
  PROVE  GrossOf(position, exit) \in Int
<1>1. Unit \in Int /\ position.quantity \in Int /\ position.entry \in Int /\ exit \in Int
  BY StrategyFacts DEF PositionType, Amount
<1>2. Unit * position.quantity \in Int
  BY <1>1
<1>3. exit - position.entry \in Int /\ position.entry - exit \in Int
  BY <1>1
<1> QED BY <1>2, <1>3 DEF GrossOf

Held ==
  /\ strategy \in Strategies
  /\ DOMAIN positions \subseteq Grids
  /\ \A g \in DOMAIN positions : positions[g] \in PositionType
  /\ state \in StateType

\* A change of the state's fields.
LEMMA StateChange ==
  ASSUME NEW s \in StateType, NEW realized \in Int, NEW fees \in Int, NEW funding \in Int,
         NEW net \in Int, NEW stops \in Nat,
         NEW reasons \in SUBSET {"grid_take_profit", "stop_loss", "liquidation"},
         NEW t, t = [s EXCEPT !.realized = realized, !.fees = fees, !.funding = funding, !.net = net,
                              !.stops = stops, !.reasons = reasons]
  PROVE  /\ t \in StateType
         /\ t.realized = realized /\ t.fees = fees /\ t.funding = funding /\ t.net = net
         /\ t.stops = stops /\ t.reasons = reasons
BY DEF StateType

\* The fields of EngineState.
LEMMA StateFacts ==
  ASSUME NEW s \in StateType
  PROVE  /\ s.realized \in Int /\ s.fees \in Int /\ s.funding \in Int /\ s.net \in Int
         /\ s.stops \in Nat /\ s.reasons \in SUBSET {"grid_take_profit", "stop_loss", "liquidation"}
BY DEF StateType

\* Funding moves what is realized and what is recorded as funding by the same amount.
LEMMA FundMoney ==
  ASSUME Held, NEW STATE rate, rate \in Int, NEW STATE notional, notional \in Int,
         Fund(rate, notional)
  PROVE  /\ state' \in StateType
         /\ state'.realized - state'.funding = state.realized - state.funding
         /\ state'.fees = state.fees /\ state'.net = state.net
         /\ state'.stops = state.stops /\ state'.reasons = state.reasons
<1>1. PICK amount \in Int : state' = [state EXCEPT !.realized = @ + amount, !.funding = @ + amount]
  <2>1. notional * (IF IsLong THEN -rate ELSE rate) \in Int
    <3>1. (IF IsLong THEN -rate ELSE rate) \in Int
      OBVIOUS
    <3> QED BY <3>1
  <2> QED BY <2>1 DEF Fund
<1>2. state \in StateType
  BY DEF Held
<1>3. state.realized \in Int /\ state.funding \in Int
  BY <1>2, StateFacts
<1>4. PICK r, f : r = state.realized + amount /\ f = state.funding + amount
  OBVIOUS
<1>5. r \in Int /\ f \in Int /\ r - f = state.realized - state.funding
  BY <1>3, <1>4
<1>6. state' = [state EXCEPT !.realized = r, !.funding = f]
  BY <1>1, <1>4
<1> QED BY <1>2, <1>5, <1>6 DEF StateType

\* The entry fees of positions.
Fees(held) == [g \in DOMAIN held |-> held[g].fee]

\* The entry fees of what is open, as a sum over the open grids.
LEMMA EntryFeesAre == EntryFees = SumFunctionOnSet(Fees(positions), DOMAIN positions)
BY DEF EntryFees, Fees, SumFunction

\* They are a number.
LEMMA FeesType == ASSUME Held PROVE EntryFees \in Int
<1>1. \A g \in DOMAIN positions : Fees(positions)[g] \in Int
  BY DEF Fees, Held, PositionType
<1>2. IsFiniteSet(DOMAIN positions)
  BY GridsFinite, FS_Subset DEF Held
<1> QED BY <1>1, <1>2, EntryFeesAre, SumInt

\* What open_position comes to.
Opened(grids, level, rate) ==
  /\ \A g \in DOMAIN positions : g \in DOMAIN positions' /\ positions'[g] = positions[g]
  /\ \A g \in DOMAIN positions' \ DOMAIN positions :
       /\ g \in grids /\ Accepted(EntryPrice(level[g]))
       /\ positions'[g] = Position(level[g], rate)
  /\ \A g \in DOMAIN positions' : positions'[g] \in PositionType
  /\ state' \in StateType
  /\ EntryFees \in Int /\ EntryFees' \in Int
  /\ state'.fees - EntryFees' = state.fees - EntryFees
  /\ state'.realized = state.realized /\ state'.funding = state.funding
  /\ state'.net = state.net /\ state'.stops = state.stops /\ state'.reasons = state.reasons

\* What is opened is paid for, and what is paid is owed by what is open.
LEMMA OpenMoney ==
  ASSUME Held, NEW STATE grids, grids \subseteq Grids, grids \cap DOMAIN positions = {},
         NEW STATE level, \A g \in grids : level[g] \in Amount,
         NEW STATE rate, rate \in Nat, Open(grids, level, rate)
  PROVE  Opened(grids, level, rate)
<1> PICK p : p = positions'
  OBVIOUS
<1> PICK o : o = [g \in {h \in grids : Accepted(EntryPrice(level[h]))} |-> Position(level[g], rate)]
  OBVIOUS
<1> PICK D, O : D = DOMAIN positions /\ O = DOMAIN o
  OBVIOUS
<1>1. O = {h \in grids : Accepted(EntryPrice(level[h]))} /\ D \cap O = {}
  OBVIOUS
<1>2. \A g \in O : o[g] = Position(level[g], rate) /\ o[g] \in PositionType
  BY <1>1, PositionTyped DEF Held
<1>3. p = [g \in D \cup O |-> IF g \in O THEN o[g] ELSE positions[g]]
  BY DEF Open
<1>4. /\ DOMAIN p = D \cup O
      /\ \A g \in D : p[g] = positions[g]
      /\ \A g \in O : p[g] = o[g]
      /\ \A g \in D \cup O : p[g] \in PositionType
  BY <1>1, <1>2, <1>3 DEF Held
<1>5. IsFiniteSet(D) /\ IsFiniteSet(O)
  BY <1>1, GridsFinite, FS_Subset DEF Held
<1> PICK fee : fee = [g \in O |-> o[g].fee]
  OBVIOUS
<1>6. state' = [state EXCEPT !.fees = @ + SumFunctionOnSet(fee, O)]
  BY DEF Open, SumFunction
<1>7. \A g \in D \cup O : Fees(p)[g] = p[g].fee /\ Fees(p)[g] \in Int
  BY <1>4 DEF Fees, PositionType
<1>8. \A g \in D : Fees(positions)[g] = Fees(p)[g]
  BY <1>4, <1>7 DEF Fees
<1>9. \A g \in O : fee[g] = Fees(p)[g]
  BY <1>4, <1>7
<1>10. SumFunctionOnSet(Fees(p), D \cup O) =
         SumFunctionOnSet(Fees(positions), D) + SumFunctionOnSet(fee, O)
  BY <1>1, <1>5, <1>7, <1>8, <1>9, SumJoin
<1>13. EntryFees' = SumFunctionOnSet(Fees(p), D \cup O)
  <2>1. EntryFees' = SumFunctionOnSet(Fees(p), DOMAIN p)
    BY DEF EntryFees, Fees, SumFunction
  <2> QED BY <2>1, <1>4
<1>14. EntryFees = SumFunctionOnSet(Fees(positions), D)
  BY EntryFeesAre
<1>15. PICK a, b : a = SumFunctionOnSet(Fees(positions), D) /\ b = SumFunctionOnSet(fee, O)
  OBVIOUS
<1>16. a \in Int /\ b \in Int
  <2>1. (\A g \in D : Fees(positions)[g] \in Int) /\ (\A g \in O : fee[g] \in Int)
    BY <1>7, <1>8, <1>9
  <2> QED BY <2>1, <1>5, <1>15, SumInt
<1>17. EntryFees = a /\ EntryFees' = a + b
  BY <1>10, <1>13, <1>14, <1>15
<1>18. state \in StateType /\ state.fees \in Int
  BY StateFacts DEF Held
<1>19. PICK f : f = state.fees + b
  OBVIOUS
<1>20. f \in Int /\ f - (a + b) = state.fees - a
  BY <1>16, <1>18, <1>19
<1>21. state' = [state EXCEPT !.fees = f]
  BY <1>6, <1>15, <1>19
<1>22. /\ state' \in StateType /\ state'.fees = f
       /\ state'.realized = state.realized /\ state'.funding = state.funding
       /\ state'.net = state.net /\ state'.stops = state.stops /\ state'.reasons = state.reasons
  BY <1>18, <1>20, <1>21 DEF StateType
<1> QED BY <1>1, <1>2, <1>4, <1>16, <1>17, <1>20, <1>22 DEF Opened

\* What close_position makes of a position: net_pnl.
NetOf(position, exit, rate) ==
  GrossOf(position, exit) - position.fee - exit * position.quantity * rate

\* What closing some grids makes, at a level each; what closing everything at a price makes.
MadeBy(grids, level, rate) ==
  SumFunctionOnSet([g \in grids |-> NetOf(positions[g], ExitPrice(level[g]), rate)], grids)
MadeAt(price) ==
  SumFunctionOnSet([g \in DOMAIN positions |->
    NetOf(positions[g], ExitPrice(price), strategy.taker)], DOMAIN positions)

\* What close_position comes to.
Closed(grids, level, rate, reason) ==
  /\ DOMAIN positions' = DOMAIN positions \ grids
  /\ \A g \in DOMAIN positions' : positions'[g] = positions[g]
  /\ state' \in StateType
  /\ EntryFees \in Int /\ EntryFees' \in Int
  /\ state'.realized - state'.fees - state'.net + EntryFees' =
       state.realized - state.fees - state.net + EntryFees
  /\ state'.funding = state.funding
  /\ state'.net = state.net + MadeBy(grids, level, rate)
  /\ state'.stops = IF reason = "stop_loss" THEN state.stops + 1 ELSE state.stops
  /\ state'.reasons = IF grids = {} THEN state.reasons ELSE state.reasons \cup {reason}

\* What a close realizes is what its trades made, with the entry fees paid before.
LEMMA CloseMoney ==
  ASSUME Held, NEW STATE grids, grids \subseteq DOMAIN positions,
         NEW STATE level, \A g \in grids : level[g] \in Amount,
         NEW STATE rate, rate \in Nat, NEW STATE reason,
         reason \in {"grid_take_profit", "stop_loss", "liquidation"},
         Close(grids, level, rate, reason)
  PROVE  Closed(grids, level, rate, reason)
<1> PICK p : p = positions'
  OBVIOUS
<1> PICK G, D : G = grids /\ D = DOMAIN positions
  OBVIOUS
<1> PICK exit : exit = [g \in G |-> ExitPrice(level[g])]
  OBVIOUS
<1> PICK gross : gross = [g \in G |-> GrossOf(positions[g], exit[g])]
  OBVIOUS
<1> PICK fee : fee = [g \in G |-> exit[g] * positions[g].quantity * rate]
  OBVIOUS
<1> PICK net : net = [g \in G |-> gross[g] - positions[g].fee - fee[g]]
  OBVIOUS
<1>1. /\ p = [g \in D \ G |-> positions[g]]
      /\ state' = [state EXCEPT !.realized = @ + SumFunctionOnSet(gross, G),
                                !.fees = @ + SumFunctionOnSet(fee, G),
                                !.net = @ + SumFunctionOnSet(net, G),
                                !.stops = IF reason = "stop_loss" THEN @ + 1 ELSE @,
                                !.reasons = IF G = {} THEN @ ELSE @ \cup {reason}]
  BY DEF Close, SumFunction
<1>2. \A g \in G : positions[g] \in PositionType /\ exit[g] \in Amount
  BY PriceType DEF Held
<1>3. \A g \in G : gross[g] \in Int
  BY <1>2, GrossType DEF Held
<1>4. \A g \in G : positions[g].fee \in Int /\ fee[g] \in Int
  <2> SUFFICES ASSUME NEW g \in G PROVE positions[g].fee \in Int /\ fee[g] \in Int
    OBVIOUS
  <2>1. positions[g].fee \in Int /\ positions[g].quantity \in Int /\ exit[g] \in Int
    BY <1>2 DEF PositionType, Amount
  <2>2. exit[g] * positions[g].quantity \in Int
    BY <2>1
  <2>3. exit[g] * positions[g].quantity * rate \in Int
    BY <2>2
  <2> QED BY <2>1, <2>3
<1>5. IsFiniteSet(D) /\ IsFiniteSet(G) /\ IsFiniteSet(D \ G)
  BY GridsFinite, FS_Subset, FS_Difference DEF Held
<1> PICK u : u = [g \in G |-> gross[g] - Fees(positions)[g]]
  OBVIOUS
<1>6. \A g \in G : Fees(positions)[g] = positions[g].fee /\ Fees(positions)[g] \in Int
  BY <1>4 DEF Fees
<1>7. \A g \in G : u[g] \in Int /\ net[g] = u[g] - fee[g] /\ net[g] \in Int
  BY <1>3, <1>4, <1>6
<1>8. SumFunctionOnSet(u, G) = SumFunctionOnSet(gross, G) - SumFunctionOnSet(Fees(positions), G)
  <2>1. \A g \in G : u[g] = gross[g] - Fees(positions)[g]
    OBVIOUS
  <2> QED BY <2>1, <1>3, <1>5, <1>6, SumMinus
<1>9. SumFunctionOnSet(net, G) = SumFunctionOnSet(u, G) - SumFunctionOnSet(fee, G)
  BY <1>4, <1>5, <1>7, SumMinus
<1>10. \A g \in D : Fees(positions)[g] \in Int
  BY DEF Held, Fees, PositionType
<1>11. SumFunctionOnSet(Fees(positions), D) =
         SumFunctionOnSet(Fees(positions), G) + SumFunctionOnSet(Fees(positions), D \ G)
  <2>1. G \cup (D \ G) = D /\ G \cap (D \ G) = {}
    OBVIOUS
  <2> QED BY <2>1, <1>5, <1>10, SumUnion
<1>12. DOMAIN p = D \ G /\ \A g \in D \ G : p[g] = positions[g]
  BY <1>1
<1>13. SumFunctionOnSet(Fees(p), D \ G) = SumFunctionOnSet(Fees(positions), D \ G)
  <2>1. \A g \in D \ G : Fees(p)[g] = Fees(positions)[g]
    BY <1>12 DEF Fees
  <2> QED BY <2>1, <1>5, <1>10, SumSame
<1>14. EntryFees' = SumFunctionOnSet(Fees(p), D \ G)
  <2>1. EntryFees' = SumFunctionOnSet(Fees(p), DOMAIN p)
    BY DEF EntryFees, Fees, SumFunction
  <2> QED BY <2>1, <1>12
<1>15. EntryFees = SumFunctionOnSet(Fees(positions), D)
  BY EntryFeesAre
<1>16. PICK a, b, c, d, v :
         /\ a = SumFunctionOnSet(gross, G) /\ b = SumFunctionOnSet(fee, G)
         /\ c = SumFunctionOnSet(Fees(positions), G)
         /\ d = SumFunctionOnSet(Fees(positions), D \ G)
         /\ v = SumFunctionOnSet(net, G)
  OBVIOUS
<1>17. a \in Int /\ b \in Int /\ c \in Int /\ d \in Int /\ v \in Int
  <2>1. \A g \in D \ G : Fees(positions)[g] \in Int
    BY <1>10
  <2> QED BY <2>1, <1>3, <1>4, <1>5, <1>6, <1>7, <1>16, SumInt
<1>18. v = (a - c) - b /\ EntryFees = c + d /\ EntryFees' = d
  BY <1>8, <1>9, <1>11, <1>13, <1>14, <1>15, <1>16
<1>19. state \in StateType /\ state.realized \in Int /\ state.fees \in Int /\ state.net \in Int
       /\ state.stops \in Nat /\ state.reasons \in SUBSET {"grid_take_profit", "stop_loss", "liquidation"}
  BY StateFacts DEF Held
<1>20. PICK r, f, n, s, q :
         /\ r = state.realized + a /\ f = state.fees + b /\ n = state.net + v
         /\ s = IF reason = "stop_loss" THEN state.stops + 1 ELSE state.stops
         /\ q = IF G = {} THEN state.reasons ELSE state.reasons \cup {reason}
  OBVIOUS
<1>21. r \in Int /\ f \in Int /\ n \in Int /\ s \in Nat
       /\ q \in SUBSET {"grid_take_profit", "stop_loss", "liquidation"}
  BY <1>17, <1>19, <1>20
<1>22. r - f - n + d = state.realized - state.fees - state.net + (c + d)
  BY <1>17, <1>18, <1>19, <1>20
<1>23. state' = [state EXCEPT !.realized = r, !.fees = f, !.net = n, !.stops = s, !.reasons = q]
  BY <1>1, <1>16, <1>20
<1>24. /\ state' \in StateType
       /\ state'.realized = r /\ state'.fees = f /\ state'.net = n /\ state'.stops = s
       /\ state'.reasons = q /\ state'.funding = state.funding
  BY <1>19, <1>21, <1>23 DEF StateType
<1>25. net = [g \in grids |-> NetOf(positions[g], ExitPrice(level[g]), rate)]
  BY DEF NetOf
<1>26. EntryFees \in Int /\ EntryFees' \in Int
  BY <1>17, <1>18
<1>27. state'.net = state.net + MadeBy(grids, level, rate)
  BY <1>16, <1>20, <1>24, <1>25 DEF MadeBy
<1>28. state'.realized - state'.fees - state'.net + EntryFees' =
         state.realized - state.fees - state.net + EntryFees
  BY <1>18, <1>22, <1>24
<1> QED BY <1>12, <1>20, <1>24, <1>26, <1>27, <1>28 DEF Closed

-----------------------------------------------------------------------------
(* The account at the close. *)

\* What is held is worth a number.
LEMMA ValueType ==
  ASSUME Held, NEW x \in Amount
  PROVE  UnrealizedPnl(x) \in Int /\ UsedNotional(x) \in Int /\ Equity(x) \in Int
<1> PICK D : D = DOMAIN positions
  OBVIOUS
<1>1. IsFiniteSet(D) /\ \A g \in D : positions[g] \in PositionType
  BY GridsFinite, FS_Subset DEF Held
<1> DEFINE Gross == [g \in D |-> GrossOf(positions[g], x)]
           Notional == [g \in D |-> x * positions[g].quantity]
<1>2. \A g \in D : Gross[g] \in Int /\ Notional[g] \in Int
  <2> SUFFICES ASSUME NEW g \in D PROVE Gross[g] \in Int /\ Notional[g] \in Int
    OBVIOUS
  <2>1. Gross[g] \in Int
    BY <1>1, GrossType DEF Held
  <2>2. x \in Int /\ positions[g].quantity \in Int
    BY <1>1 DEF PositionType, Amount
  <2>3. x * positions[g].quantity \in Int
    BY <2>2
  <2> QED BY <2>1, <2>3
<1>3. UnrealizedPnl(x) = SumFunctionOnSet(Gross, D) /\ UsedNotional(x) = SumFunctionOnSet(Notional, D)
  BY DEF UnrealizedPnl, UsedNotional, SumFunction
<1> HIDE DEF Gross, Notional
<1>4. UnrealizedPnl(x) \in Int /\ UsedNotional(x) \in Int
  BY <1>1, <1>2, <1>3, SumInt
<1>5. Unit * strategy.margin \in Int /\ state.realized \in Int /\ state.fees \in Int
  <2>1. Unit \in Int /\ strategy.margin \in Int /\ state.realized \in Int /\ state.fees \in Int
    BY StrategyFacts, StateFacts DEF Held, Amount
  <2> QED BY <2>1
<1> QED BY <1>4, <1>5 DEF Equity

\* Solvent at the price of the liquidation check is solvent at the close: the margin above the
\* maintenance margin only grows from one to the other.
LEMMA SolventPrice ==
  ASSUME Held, candle \in Candles,
         Equity(LiquidationPrice) > UsedNotional(LiquidationPrice) * strategy.mmr
  PROVE  Equity(candle.close) > UsedNotional(candle.close) * strategy.mmr
<1> PICK p, c : p = LiquidationPrice /\ c = candle.close
  OBVIOUS
<1>1. p \in Amount /\ c \in Amount /\ (IF IsLong THEN p <= c ELSE p >= c)
  BY CandleFacts, StrategyFacts DEF LiquidationPrice, Held, Amount
<1> PICK D : D = DOMAIN positions
  OBVIOUS
<1>2. IsFiniteSet(D) /\ \A g \in D : positions[g] \in PositionType
  BY GridsFinite, FS_Subset DEF Held
<1> DEFINE Gross(x) == [g \in D |-> GrossOf(positions[g], x)]
           Notional(x) == [g \in D |-> x * positions[g].quantity]
           Margin(x) == [g \in D |-> strategy.mmr * Notional(x)[g]]
           Room(x) == [g \in D |-> Gross(x)[g] - Margin(x)[g]]
<1>3. \A x \in Amount : \A g \in D :
        /\ Gross(x)[g] \in Int /\ Notional(x)[g] \in Int /\ Margin(x)[g] \in Int
        /\ Room(x)[g] = Gross(x)[g] - Margin(x)[g] /\ Room(x)[g] \in Int
        /\ Margin(x)[g] = strategy.mmr * Notional(x)[g]
  <2> SUFFICES ASSUME NEW x \in Amount, NEW g \in D
               PROVE  Gross(x)[g] \in Int /\ Notional(x)[g] \in Int /\ Margin(x)[g] \in Int
    OBVIOUS
  <2>1. Gross(x)[g] \in Int
    BY <1>2, GrossType DEF Held
  <2>2. x \in Int /\ positions[g].quantity \in Int /\ strategy.mmr \in Int
    BY <1>2, StrategyFacts DEF PositionType, Amount, Held
  <2>3. x * positions[g].quantity \in Int
    BY <2>2
  <2>4. strategy.mmr * (x * positions[g].quantity) \in Int
    BY <2>2, <2>3
  <2> QED BY <2>1, <2>3, <2>4
<1>4. ASSUME NEW x \in Amount
      PROVE  /\ UnrealizedPnl(x) = SumFunctionOnSet(Gross(x), D)
             /\ UsedNotional(x) = SumFunctionOnSet(Notional(x), D)
  BY DEF UnrealizedPnl, UsedNotional, SumFunction
<1> HIDE DEF Gross, Notional, Margin, Room
<1>5. ASSUME NEW x \in Amount
      PROVE  /\ UnrealizedPnl(x) \in Int /\ UsedNotional(x) \in Int
             /\ SumFunctionOnSet(Room(x), D) = UnrealizedPnl(x) - strategy.mmr * UsedNotional(x)
  <2>1. strategy.mmr \in Int
    BY StrategyFacts DEF Held, Amount
  <2>2. SumFunctionOnSet(Gross(x), D) \in Int /\ SumFunctionOnSet(Notional(x), D) \in Int
    BY <1>2, <1>3, SumInt
  <2>3. SumFunctionOnSet(Margin(x), D) = strategy.mmr * SumFunctionOnSet(Notional(x), D)
    BY <1>2, <1>3, <2>1, SumTimes
  <2>4. SumFunctionOnSet(Room(x), D) = SumFunctionOnSet(Gross(x), D) - SumFunctionOnSet(Margin(x), D)
    BY <1>2, <1>3, SumMinus
  <2> QED BY <1>4, <2>2, <2>3, <2>4
<1>6. \A g \in D : Room(p)[g] <= Room(c)[g]
  <2> SUFFICES ASSUME NEW g \in D PROVE Room(p)[g] <= Room(c)[g]
    OBVIOUS
  <2> PICK q, e, u, m : q = positions[g].quantity /\ e = positions[g].entry /\ u = Unit /\ m = strategy.mmr
    OBVIOUS
  <2>1. q \in Nat /\ e \in Nat /\ u \in Nat /\ m \in Nat /\ m <= u /\ p \in Nat /\ c \in Nat
    BY <1>1, <1>2, StrategyFacts DEF Held, PositionType, Amount
  <2>2. ASSUME NEW x \in Amount
        PROVE  Room(x)[g] = u * q * (IF IsLong THEN x - e ELSE e - x) - m * (x * q)
    BY DEF Room, Gross, Margin, Notional, GrossOf
  <2> PICK k : k = q * m
    OBVIOUS
  <2> PICK w : w = u * q
    OBVIOUS
  <2>3. k \in Nat /\ w \in Nat /\ k <= w
    <3>1. q * m <= q * u
      BY <2>1, Products
    <3> QED BY <2>1, <3>1
  <2>4. m * (p * q) = k * p /\ m * (c * q) = k * c
    BY <2>1
  <2>5. CASE IsLong
    <3>1. Room(p)[g] = w * (p - e) - k * p /\ Room(c)[g] = w * (c - e) - k * c
      BY <2>2, <2>4, <2>5, <1>1
    <3>2. w * (p - e) - k * p = (w - k) * p - w * e /\ w * (c - e) - k * c = (w - k) * c - w * e
      BY <2>1, <2>3
    <3>3. (w - k) * p <= (w - k) * c
      BY <2>1, <2>3, <2>5, <1>1, Products
    <3>4. (w - k) * p \in Int /\ (w - k) * c \in Int /\ w * e \in Int
      BY <2>1, <2>3
    <3> QED BY <3>1, <3>2, <3>3, <3>4
  <2>6. CASE ~IsLong
    <3>1. Room(p)[g] = w * (e - p) - k * p /\ Room(c)[g] = w * (e - c) - k * c
      BY <2>2, <2>4, <2>6, <1>1
    <3>2. w * (e - p) - k * p = w * e - (w + k) * p /\ w * (e - c) - k * c = w * e - (w + k) * c
      BY <2>1, <2>3
    <3>3. (w + k) * c <= (w + k) * p
      BY <2>1, <2>3, <2>6, <1>1, Products
    <3>4. (w + k) * p \in Int /\ (w + k) * c \in Int /\ w * e \in Int
      BY <2>1, <2>3
    <3> QED BY <3>1, <3>2, <3>3, <3>4
  <2> QED BY <2>5, <2>6
<1>7. SumFunctionOnSet(Room(p), D) <= SumFunctionOnSet(Room(c), D)
  BY <1>1, <1>2, <1>3, <1>6, SumAtMost
<1>8. PICK a \in Int : \A x \in Amount : Equity(x) = a + UnrealizedPnl(x)
  <2>1. Unit * strategy.margin + state.realized - state.fees \in Int
    <3>1. Unit \in Int /\ strategy.margin \in Int /\ state.realized \in Int /\ state.fees \in Int
      BY StrategyFacts, StateFacts DEF Held, Amount
    <3>2. Unit * strategy.margin \in Int
      BY <3>1
    <3> QED BY <3>1, <3>2
  <2> QED BY <2>1 DEF Equity
<1>9. PICK up, uc, np, nc, m :
        /\ up = UnrealizedPnl(p) /\ uc = UnrealizedPnl(c)
        /\ np = UsedNotional(p) /\ nc = UsedNotional(c) /\ m = strategy.mmr
  OBVIOUS
<1>10. up \in Int /\ uc \in Int /\ np \in Int /\ nc \in Int /\ m \in Int
  BY <1>1, <1>5, <1>9, StrategyFacts DEF Held, Amount
<1>11. up - m * np <= uc - m * nc /\ a + up > np * m
  BY <1>1, <1>5, <1>7, <1>8, <1>9
<1>12. a + uc > nc * m
  <2>1. m * np \in Int /\ m * nc \in Int /\ np * m = m * np /\ nc * m = m * nc
    BY <1>10
  <2> QED BY <1>10, <1>11, <2>1
<1> QED BY <1>1, <1>8, <1>9, <1>12

-----------------------------------------------------------------------------
(* The worst case. *)

\* A level that the stop price lies beyond.
BeforeStop(level) == IF IsLong THEN level > strategy.stop ELSE level < strategy.stop

\* Rounding to the tick keeps the order.
LEMMA RoundedMonotone ==
  ASSUME strategy \in Strategies, NEW a \in Nat, NEW b \in Nat, a <= b
  PROVE  RoundToStep(a) <= RoundToStep(b)
<1> PICK u, t : u = Unit * strategy.tick /\ t = strategy.tick
  OBVIOUS
<1>1. u \in Nat /\ u > 0 /\ t \in Nat
  BY StrategyFacts DEF Amount
<1>2. PICK p, q : p = RoundedQuotient(a, u) /\ q = RoundedQuotient(b, u)
  OBVIOUS
<1>3. p \in Nat /\ q \in Nat /\ p <= q
  BY <1>1, <1>2, RQ1, RQ2
<1>4. t * p <= t * q
  BY <1>1, <1>3, Products
<1> QED BY <1>2, <1>4 DEF RoundToStep

\* A price that is rounded to 0 is at most half a tick.
LEMMA RoundedDown ==
  ASSUME strategy \in Strategies, NEW a \in Nat
  PROVE  /\ 2 * a <= 2 * (Unit * RoundToStep(a)) + Unit * strategy.tick
         /\ 2 * (Unit * RoundToStep(a)) <= 2 * a + Unit * strategy.tick
         /\ RoundToStep(a) > 0 => RoundToStep(a) >= strategy.tick
<1> PICK U, u, t, q : /\ U = Unit /\ u = Unit * strategy.tick /\ t = strategy.tick
                      /\ q = RoundedQuotient(a, u)
  OBVIOUS
<1>1. U \in Nat /\ U > 0 /\ u \in Nat /\ u > 0 /\ t \in Nat /\ t > 0
  BY StrategyFacts DEF Amount
<1>2. q \in Nat /\ 2 * a - u <= 2 * (u * q) /\ 2 * (u * q) <= 2 * a + u
  BY <1>1, RQ1
<1>3. RoundToStep(a) = t * q
  BY DEF RoundToStep
<1>4. U * (t * q) = u * q
  BY <1>1, <1>2
<1>5. q >= 1 => t * q >= t
  BY <1>1, <1>2
<1>6. q = 0 => t * q = 0
  BY <1>1
<1>7. u * q \in Int
  BY <1>1, <1>2
<1> QED BY <1>1, <1>2, <1>3, <1>4, <1>5, <1>6, <1>7

\* Whatever the slippage and the rounding do, an entry before the stop is no better than the exit
\* at the stop.
LEMMA EntryBeforeExit ==
  ASSUME strategy \in Strategies, NEW level \in Amount, BeforeStop(level), EntryPrice(level) > 0
  PROVE  IF IsLong THEN ExitPrice(strategy.stop) <= EntryPrice(level)
                   ELSE EntryPrice(level) <= ExitPrice(strategy.stop)
<1> PICK U, s, x, t : U = Unit /\ s = strategy.slippage /\ x = strategy.stop /\ t = strategy.tick
  OBVIOUS
<1>1. /\ U \in Nat /\ U > 0 /\ s \in Nat /\ s < U /\ x \in Nat /\ x > 0 /\ t \in Nat /\ t > 0
      /\ level \in Nat /\ level > 0 /\ x \in Amount
  BY StrategyFacts DEF Amount
<1> PICK a, b : a = U + s /\ b = U - s
  OBVIOUS
<1>2. a \in Nat /\ b \in Nat /\ b <= a /\ a + b = 2 * U
  BY <1>1
<1>3. level * a \in Nat /\ level * b \in Nat /\ x * a \in Nat /\ x * b \in Nat
  BY <1>1, <1>2
<1>4. CASE IsLong
  <2>1. EntryPrice(level) = RoundToStep(level * a)
    BY <1>4 DEF EntryPrice
  <2>2. ExitPrice(x) = IF RoundToStep(x * b) > 0 THEN RoundToStep(x * b) ELSE x
    BY <1>4 DEF ExitPrice
  <2>3. x <= level
    BY <1>1, <1>4 DEF BeforeStop
  <2>4. a * x <= a * level /\ x * b <= x * a /\ x * a <= level * a
    <3>1. a * x <= a * level
      BY <1>1, <1>2, <2>3, Products
    <3>2. x * b <= x * a
      BY <1>1, <1>2, Products
    <3> QED BY <1>1, <1>2, <3>1, <3>2
  <2>5. CASE RoundToStep(x * b) > 0
    <3>1. RoundToStep(x * b) <= RoundToStep(level * a)
      BY <1>3, <2>4, RoundedMonotone
    <3> QED BY <1>4, <2>1, <2>2, <2>5, <3>1
  <2>6. CASE ~(RoundToStep(x * b) > 0)
    <3>1. RoundToStep(x * b) = 0
      BY <1>3, <2>6, RoundToStepType
    <3> PICK e, u : e = RoundToStep(level * a) /\ u = U * t
      OBVIOUS
    <3>2. /\ e \in Nat /\ e > 0 /\ e >= t
          /\ 2 * (level * a) <= 2 * (U * e) + u
      BY <1>3, <2>1, RoundToStepType, RoundedDown
    <3>3. 2 * (x * b) <= u
      <4>1. 2 * (x * b) <= 2 * (U * 0) + u
        BY <1>3, <3>1, RoundedDown
      <4> QED BY <4>1, <1>1
    <3>4. x <= e
      <4>1. CASE x <= t
        BY <1>1, <3>2, <4>1
      <4>2. CASE t < x
        <5>1. x * a + x * b = 2 * (U * x)
          <6>1. x * a + x * b = x * (a + b)
            BY <1>1, <1>2
          <6> QED BY <1>1, <1>2, <6>1
        <5>2. PICK z, v, w : z = U * x /\ v = x * b /\ w = U * e
          OBVIOUS
        <5>3. z \in Int /\ v \in Int /\ w \in Int /\ u \in Int
          BY <1>1, <1>2, <3>2, <5>2
        <5>4. u <= z
          BY <1>1, <4>2, <5>2, Products
        <5>5. x * a = 2 * z - v /\ x * a <= level * a
          BY <5>1, <5>2, <5>3, <1>3, <2>4
        <5>6. 2 * (2 * z - v) <= 2 * w + u
          BY <5>5, <5>2, <5>3, <3>2, <1>3
        <5>7. z <= w
          BY <5>6, <5>4, <5>3, <3>3, <5>2
        <5>8. CASE e < x
          <6>1. U * (e + 1) <= U * x
            BY <1>1, <3>2, <5>8, Products
          <6>2. U * (e + 1) = w + U
            BY <1>1, <3>2, <5>2
          <6> QED BY <6>1, <6>2, <5>2, <5>3, <5>7, <1>1
        <5> QED BY <5>8, <1>1, <3>2
      <4> QED BY <4>1, <4>2, <1>1
    <3> QED BY <1>4, <2>1, <2>2, <2>6, <3>4
  <2> QED BY <2>5, <2>6
<1>5. CASE ~IsLong
  <2>1. EntryPrice(level) = RoundToStep(level * b)
    BY <1>5 DEF EntryPrice
  <2>2. ExitPrice(x) = IF RoundToStep(x * a) > 0 THEN RoundToStep(x * a) ELSE x
    BY <1>5 DEF ExitPrice
  <2>3. level <= x
    BY <1>1, <1>5 DEF BeforeStop
  <2>4. level * b <= x * a
    <3>1. b * level <= b * x
      BY <1>1, <1>2, <2>3, Products
    <3>2. x * b <= x * a
      BY <1>1, <1>2, Products
    <3> QED BY <1>1, <1>2, <1>3, <3>1, <3>2
  <2>5. RoundToStep(level * b) <= RoundToStep(x * a)
    BY <1>3, <2>4, RoundedMonotone
  <2>6. RoundToStep(x * a) \in Nat /\ RoundToStep(level * b) \in Nat
    BY <1>3, RoundToStepType
  <2> QED BY <1>5, <2>1, <2>2, <2>5, <2>6
<1> QED BY <1>4, <1>5

\* Every level of an order is before the stop.
LEMMA OrderBeforeStop ==
  ASSUME strategy \in Strategies, NEW g \in Grids
  PROVE  BeforeStop(EntryLevel(g))
<1> PICK l, s, n, x : l = strategy.lower /\ s = strategy.step /\ n = strategy.grids /\ x = strategy.stop
  OBVIOUS
<1>1. /\ l \in Nat /\ s \in Nat /\ n \in Nat /\ x \in Nat /\ g \in Nat /\ g + 1 <= n
      /\ IsLong => x < l
      /\ ~IsLong => x > l + n * s
  BY StrategyFacts DEF Amount, Grids
<1>2. g * s \in Nat /\ s * (g + 1) <= s * n /\ (g + 1) * s = s * (g + 1) /\ n * s = s * n
      /\ s * (g + 1) \in Nat /\ s * n \in Nat
  BY <1>1, Products
<1> QED BY <1>1, <1>2 DEF BeforeStop, EntryLevel, Line

\* What the legs of the worst case are.
LEMMA LegFacts ==
  ASSUME strategy \in Strategies, NEW price \in Amount, NEW legs, legs = WorstCaseLegs(price)
  PROVE  /\ DOMAIN legs \subseteq Grids
         /\ \A g \in BaseGrids(price) : Accepted(EntryPrice(price)) =>
              g \in DOMAIN legs /\ legs[g] = Position(price, strategy.taker)
         /\ \A g \in BaseGrids(price) \cap DOMAIN legs : Accepted(EntryPrice(price))
         /\ \A g \in Grids \ BaseGrids(price) :
              /\ g \in DOMAIN legs => /\ Accepted(EntryPrice(EntryLevel(g)))
                                      /\ legs[g] = Position(EntryLevel(g), strategy.maker)
              /\ Accepted(EntryPrice(EntryLevel(g))) /\ EntryIsAdverse(g, price) /\ EntryLevel(g) # price
                   => g \in DOMAIN legs
<1> DEFINE base == BaseGrids(price)
           orders == {g \in Grids \ base :
                        IF IsLong THEN EntryLevel(g) < price ELSE EntryLevel(g) > price}
           level == [g \in base \cup orders |-> IF g \in base THEN price ELSE EntryLevel(g)]
<1>1. legs = [g \in {h \in DOMAIN level : Accepted(EntryPrice(level[h]))} |->
                Position(level[g], IF g \in base THEN strategy.taker ELSE strategy.maker)]
  BY DEF WorstCaseLegs
<1>2. base \subseteq Grids
  BY DEF BaseGrids
<1>3. /\ DOMAIN level = base \cup orders
      /\ \A g \in base : level[g] = price
      /\ \A g \in orders : level[g] = EntryLevel(g)
  OBVIOUS
<1> HIDE DEF level
<1>4. /\ DOMAIN legs = {h \in base \cup orders : Accepted(EntryPrice(level[h]))}
      /\ \A g \in DOMAIN legs :
           legs[g] = Position(level[g], IF g \in base THEN strategy.taker ELSE strategy.maker)
  BY <1>1, <1>3
<1>5. \A g \in Grids : EntryIsAdverse(g, price) /\ EntryLevel(g) # price
        => (IF IsLong THEN EntryLevel(g) < price ELSE EntryLevel(g) > price)
  BY LevelType DEF EntryIsAdverse, Amount
<1> HIDE DEF base
<1> QED BY <1>2, <1>3, <1>4, <1>5 DEF base

\* The estimate is of a strategy with a base position or a price that is not on a grid line.
Estimated == strategy.base \/ \A i \in 0 .. strategy.grids : Line(i) # history.first

\* What is held are legs of the worst case, among them all that the run began with.
LegsHeld ==
  LET legs == WorstCaseLegs(history.first) IN
  /\ \A g \in DOMAIN positions : g \in DOMAIN legs /\ positions[g] = legs[g]
  /\ BaseGrids(history.first) \cap DOMAIN legs \subseteq DOMAIN positions

\* An order of the worst case that is closed at the stop makes nothing.
LEMMA LegLoss ==
  ASSUME strategy \in Strategies, NEW g \in Grids, NEW level \in Amount, BeforeStop(level),
         Accepted(EntryPrice(level)), NEW position, position = Position(level, strategy.maker)
  PROVE  NetOf(position, ExitPrice(strategy.stop), strategy.taker) <= 0
<1> PICK e, x, q, f, r, U :
      /\ e = EntryPrice(level) /\ x = ExitPrice(strategy.stop) /\ q = position.quantity
      /\ f = position.fee /\ r = strategy.taker /\ U = Unit
  OBVIOUS
<1>1. position.entry = e
  BY DEF Position
<1>2. /\ e \in Nat /\ e > 0 /\ x \in Nat /\ q \in Nat /\ f \in Nat /\ r \in Nat /\ U \in Nat
  <2>1. position \in PositionType
    BY StrategyFacts, PositionTyped
  <2> QED BY <2>1, <1>1, StrategyFacts, PriceType DEF PositionType, Amount
<1>3. IF IsLong THEN x <= e ELSE e <= x
  BY <1>2, EntryBeforeExit
<1>4. GrossOf(position, x) <= 0
  <2> PICK d : d = IF IsLong THEN x - e ELSE e - x
    OBVIOUS
  <2>1. d \in Int /\ d <= 0
    BY <1>2, <1>3
  <2>2. U * q \in Nat
    BY <1>2
  <2>3. (U * q) * d <= (U * q) * 0
    BY <2>1, <2>2, Products
  <2>4. GrossOf(position, x) = (U * q) * d
    BY <1>1 DEF GrossOf
  <2> QED BY <2>2, <2>3, <2>4
<1>5. x * q * r \in Nat
  <2>1. x * q \in Nat
    BY <1>2
  <2> QED BY <2>1, <1>2
<1>6. GrossOf(position, x) \in Int
  BY PositionTyped, StrategyFacts, PriceType, GrossType
<1> PICK a, b : a = GrossOf(position, x) /\ b = x * q * r
  OBVIOUS
<1>7. a - f - b <= 0
  BY <1>2, <1>4, <1>5, <1>6
<1> QED BY <1>7 DEF NetOf

\* The larger of two numbers.
LEMMA LargerOf ==
  ASSUME NEW a \in Int, NEW b \in Int
  PROVE  /\ Max({a, b}) \in {a, b}
         /\ Max({a, b}) >= a /\ Max({a, b}) >= b
<1>1. \E m \in {a, b} : \A y \in {a, b} : m >= y
  OBVIOUS
<1>2. /\ Max({a, b}) \in {a, b}
      /\ \A y \in {a, b} : Max({a, b}) >= y
  BY <1>1 DEF Max
<1> QED BY <1>2

\* What the stop makes of what is held is within the estimate.
LEMMA LossCovered ==
  ASSUME Held, history.first \in Amount, LegsHeld
  PROVE  MadeAt(strategy.stop) \in Int /\ -MadeAt(strategy.stop) <= MaxPossibleLoss(history.first)
<1> PICK legs, x, r : /\ legs = WorstCaseLegs(history.first) /\ x = ExitPrice(strategy.stop)
                      /\ r = strategy.taker
  OBVIOUS
<1> PICK D, L : D = DOMAIN positions /\ L = DOMAIN legs
  OBVIOUS
<1>0. strategy \in Strategies
  BY DEF Held
<1>1. L \subseteq Grids /\ IsFiniteSet(L)
  BY <1>0, LegFacts, GridsFinite, FS_Subset
<1>2. D \in SUBSET L /\ \A g \in D : positions[g] = legs[g]
  BY DEF LegsHeld
<1>3. \A g \in L \ D : legs[g] \in PositionType /\ NetOf(legs[g], x, r) <= 0
  <2> SUFFICES ASSUME NEW g \in L \ D
               PROVE  legs[g] \in PositionType /\ NetOf(legs[g], x, r) <= 0
    OBVIOUS
  <2>1. g \in Grids \ BaseGrids(history.first)
    BY <1>1 DEF LegsHeld
  <2>2. /\ Accepted(EntryPrice(EntryLevel(g)))
        /\ legs[g] = Position(EntryLevel(g), strategy.maker)
    BY <1>0, <2>1, LegFacts
  <2>3. EntryLevel(g) \in Amount /\ BeforeStop(EntryLevel(g)) /\ strategy.maker \in Nat
    BY <1>0, <2>1, LevelType, OrderBeforeStop, StrategyFacts
  <2> QED BY <1>0, <2>1, <2>2, <2>3, LegLoss, PositionTyped
<1>4. \A g \in L : legs[g] \in PositionType
  BY <1>2, <1>3 DEF Held
<1>5. x \in Amount /\ r \in Nat
  BY <1>0, StrategyFacts, PriceType
<1>6. \A g \in L : NetOf(legs[g], x, r) \in Int
  <2> SUFFICES ASSUME NEW g \in L PROVE NetOf(legs[g], x, r) \in Int
    OBVIOUS
  <2>1. GrossOf(legs[g], x) \in Int
    BY <1>0, <1>4, <1>5, GrossType
  <2>2. legs[g].fee \in Int /\ legs[g].quantity \in Int /\ x \in Int /\ r \in Int
    BY <1>4, <1>5 DEF PositionType, Amount
  <2>3. x * legs[g].quantity \in Int
    BY <2>2
  <2>4. x * legs[g].quantity * r \in Int
    BY <2>2, <2>3
  <2> QED BY <2>1, <2>2, <2>4 DEF NetOf
<1> DEFINE net == [g \in L |-> NetOf(legs[g], x, r)]
           loss == [g \in L |-> legs[g].fee + x * legs[g].quantity * strategy.taker - GrossOf(legs[g], x)]
           held == [g \in D |-> NetOf(positions[g], x, r)]
<1>7. \A g \in L : net[g] \in Int /\ loss[g] = -net[g] /\ loss[g] \in Int
  <2> SUFFICES ASSUME NEW g \in L PROVE net[g] \in Int /\ loss[g] = -net[g] /\ loss[g] \in Int
    OBVIOUS
  <2>1. net[g] = NetOf(legs[g], x, r) /\ net[g] \in Int
    BY <1>6
  <2>2. loss[g] = legs[g].fee + x * legs[g].quantity * r - GrossOf(legs[g], x)
    OBVIOUS
  <2> PICK a, b, c : a = GrossOf(legs[g], x) /\ b = legs[g].fee /\ c = x * legs[g].quantity * r
    OBVIOUS
  <2>3. a \in Int /\ b \in Int /\ c \in Int
    <3>1. a \in Int
      BY <1>0, <1>4, <1>5, GrossType
    <3>2. b \in Int /\ legs[g].quantity \in Int /\ x \in Int /\ r \in Int
      BY <1>4, <1>5 DEF PositionType, Amount
    <3>3. x * legs[g].quantity \in Int
      BY <3>2
    <3> QED BY <3>1, <3>2, <3>3
  <2>4. net[g] = a - b - c /\ loss[g] = b + c - a
    BY <2>1, <2>2 DEF NetOf
  <2> QED BY <2>1, <2>3, <2>4
<1>8. \A g \in D : net[g] \in Int /\ held[g] = net[g] /\ loss[g] = -net[g]
  BY <1>2, <1>7
<1>16. \A g \in L \ D : net[g] <= 0
  BY <1>3
<1> HIDE DEF net, loss, held
<1>9. IsFiniteSet(D)
  BY <1>1, <1>2, FS_Subset
<1> PICK a, b, c, d : /\ a = SumFunctionOnSet(held, D) /\ b = SumFunctionOnSet(net, D)
                      /\ c = SumFunctionOnSet(loss, D) /\ d = SumFunctionOnSet(loss, L)
  OBVIOUS
<1>10. a = b
  <2>1. \A g \in D : held[g] \in Int /\ held[g] = net[g]
    BY <1>8
  <2>2. SumFunctionOnSet(held, D) = SumFunctionOnSet(net, D)
    BY <2>1, <1>9, SumSame
  <2> QED BY <2>2
<1>11. c = -b
  <2>1. \A g \in D : net[g] \in Int /\ loss[g] = -net[g]
    BY <1>8
  <2>2. SumFunctionOnSet(loss, D) = -SumFunctionOnSet(net, D)
    BY <2>1, <1>9, SumNegate
  <2> QED BY <2>2
<1>12. c <= d
  <2>1. \A g \in L \ D : loss[g] >= 0
    BY <1>16, <1>7
  <2>2. \A g \in L : loss[g] \in Int
    BY <1>7
  <2> QED BY <2>1, <2>2, <1>1, <1>2, SumSubset
<1>13. b \in Int /\ d \in Int /\ c \in Int
  <2>1. (\A g \in D : net[g] \in Int /\ loss[g] \in Int) /\ (\A g \in L : loss[g] \in Int)
    BY <1>2, <1>7
  <2> QED BY <2>1, <1>1, <1>9, SumInt
<1>14. MaxPossibleLoss(history.first) = Max({0, d})
  BY DEF MaxPossibleLoss, SumFunction, loss
<1>15. Max({0, d}) >= d /\ Max({0, d}) \in Int
  <2> PICK z \in Int : z = 0
    OBVIOUS
  <2>1. /\ Max({z, d}) \in {z, d}
        /\ Max({z, d}) >= d
    BY <1>13, LargerOf
  <2> QED BY <2>1, <1>13
<1>17. a \in Int /\ -a <= MaxPossibleLoss(history.first)
  BY <1>10, <1>11, <1>12, <1>13, <1>14, <1>15
<1> QED BY <1>17 DEF held, MadeAt

-----------------------------------------------------------------------------
(* What does not depend on the step. *)

\* What the strategy determines stays with it.
LEMMA SameStrategy ==
  ASSUME strategy' = strategy
  PROVE  /\ IsLong' = IsLong /\ Grids' = Grids
         /\ \A g : EntryLevel(g)' = EntryLevel(g)
BY DEF IsLong, Grids, EntryLevel, Line

\* So do the legs of the worst case for the first close.
LEMMA SameLegs ==
  ASSUME strategy' = strategy, history'.first = history.first
  PROVE  /\ BaseGrids(history.first)' = BaseGrids(history.first)
         /\ WorstCaseLegs(history.first)' = WorstCaseLegs(history.first)
<1> PICK price : price = history.first
  OBVIOUS
<1>1. BaseGrids(price)' = BaseGrids(price)
  BY DEF BaseGrids, Grids, IsLong, Line
<1>2. WorstCaseLegs(price)' = WorstCaseLegs(price)
  BY DEF WorstCaseLegs, BaseGrids, Grids, IsLong, Line, EntryLevel, Accepted, EntryPrice, Position,
         Quantity, Stake, RoundToStep
<1>3. BaseGrids(history.first)' = BaseGrids(price)'
  BY DEF BaseGrids, Grids, IsLong, Line
<1>4. WorstCaseLegs(history.first)' = WorstCaseLegs(price)'
  BY DEF WorstCaseLegs, BaseGrids, Grids, IsLong, Line, EntryLevel, Accepted, EntryPrice, Position,
         Quantity, Stake, RoundToStep
<1> QED BY <1>1, <1>2, <1>3, <1>4

\* And what they lose.
LEMMA SameLoss ==
  ASSUME strategy' = strategy, history'.first = history.first
  PROVE  MaxPossibleLoss(history.first)' = MaxPossibleLoss(history.first)
<1> PICK L : L = WorstCaseLegs(history.first)
  OBVIOUS
<1>1. WorstCaseLegs(history.first)' = L
  BY SameLegs
<1> PICK x : x = ExitPrice(strategy.stop)
  OBVIOUS
<1>2. ExitPrice(strategy.stop)' = x
  BY DEF ExitPrice, RoundToStep, IsLong
<1>3. ASSUME NEW l PROVE GrossOf(l, x)' = GrossOf(l, x)
  BY DEF GrossOf, IsLong
<1> DEFINE F == [g \in DOMAIN L |->
                   L[g].fee + x * L[g].quantity * strategy.taker - GrossOf(L[g], x)]
           G == [g \in DOMAIN L |->
                   L[g].fee + x * L[g].quantity * strategy'.taker - GrossOf(L[g], x)']
<1>4. MaxPossibleLoss(history.first) = Max({0, SumFunction(F)})
  BY DEF MaxPossibleLoss
<1>5. MaxPossibleLoss(history.first)' = Max({0, SumFunction(G)})
  BY <1>1, <1>2 DEF MaxPossibleLoss
<1>6. F = G
  BY <1>3
<1> QED BY <1>4, <1>5, <1>6

\* And whether the estimate applies.
LEMMA SameEstimate ==
  ASSUME strategy' = strategy, history'.first = history.first
  PROVE  /\ Estimated' = Estimated
         /\ \A g : EntryIsAdverse(g, history.first)' = EntryIsAdverse(g, history.first)
BY DEF Estimated, Line, EntryIsAdverse, EntryLevel, IsLong

-----------------------------------------------------------------------------
\* A stop is counted, and nothing was made while nothing was closed.
Recorded ==
  /\ "stop_loss" \in state.reasons => state.stops >= 1
  /\ state.reasons = {} => state.net = 0 /\ state.stops = 0

\* What adverse closes mean for the close and the orders in the book.
AdverseSoFar ==
  history.adverse =>
    /\ IF IsLong THEN candle.close <= history.first ELSE candle.close >= history.first
    /\ \A g \in pending : EntryIsAdverse(g, history.first)

\* While nothing was closed, what is held are legs of the worst case.
LegsWhileOpen == Estimated /\ history.adverse /\ state.reasons = {} => LegsHeld

WorstInv == Recorded /\ AdverseSoFar /\ LegsWhileOpen /\ WorstCaseCovers

\* Nothing was closed.
LEMMA WorstKept ==
  ASSUME TypeOK, WorstInv, strategy' = strategy, history' = history, candle' = candle,
         pending' \subseteq pending,
         state'.net = state.net, state'.stops = state.stops, state'.reasons = state.reasons,
         Estimated /\ history.adverse /\ state.reasons = {} => LegsHeld'
  PROVE  WorstInv'
<1>1. Recorded'
  BY DEF WorstInv, Recorded
<1>2. AdverseSoFar'
  BY SameEstimate, SameStrategy DEF WorstInv, AdverseSoFar
<1>3. LegsWhileOpen'
  BY SameEstimate DEF LegsWhileOpen
<1>4. WorstCaseCovers'
  BY SameEstimate, SameLoss DEF WorstInv, WorstCaseCovers, LossIsWithin, Estimated
<1> QED BY <1>1, <1>2, <1>3, <1>4 DEF WorstInv

\* Something was closed for another reason than the stop.
LEMMA WorstOther ==
  ASSUME TypeOK, WorstInv, strategy' = strategy, history' = history, candle' = candle,
         pending' \subseteq pending, NEW reason, reason \in {"grid_take_profit", "liquidation"},
         state'.stops = state.stops, state'.reasons = state.reasons \cup {reason}
  PROVE  WorstInv'
<1>1. Recorded'
  BY DEF WorstInv, Recorded
<1>2. AdverseSoFar'
  BY SameEstimate, SameStrategy DEF WorstInv, AdverseSoFar
<1>3. LegsWhileOpen'
  BY DEF LegsWhileOpen
<1>4. WorstCaseCovers'
  BY DEF WorstCaseCovers, LossIsWithin
<1> QED BY <1>1, <1>2, <1>3, <1>4 DEF WorstInv

\* What was held was closed at the stop.
LEMMA WorstStopped ==
  ASSUME TypeOK, WorstInv, strategy' = strategy, history' = history, candle' = candle,
         pending' = pending,
         state'.stops = state.stops + 1, state'.reasons = state.reasons \cup {"stop_loss"},
         state'.net = state.net + MadeAt(strategy.stop)
  PROVE  WorstInv'
<1>0. state.stops \in Nat
  BY DEF TypeOK
<1>1. Recorded'
  BY <1>0 DEF WorstInv, Recorded
<1>2. AdverseSoFar'
  BY SameEstimate, SameStrategy DEF WorstInv, AdverseSoFar
<1>3. LegsWhileOpen'
  BY DEF LegsWhileOpen
<1>4. WorstCaseCovers'
  <2> SUFFICES ASSUME Estimated, history.adverse, state'.stops = 1, state'.reasons = {"stop_loss"}
               PROVE  -state'.net <= MaxPossibleLoss(history.first)
    BY SameEstimate, SameLoss DEF WorstCaseCovers, LossIsWithin, Estimated
  <2>1. state.stops = 0
    BY <1>0
  <2>2. state.reasons = {}
    BY <2>1 DEF WorstInv, Recorded
  <2>3. LegsHeld /\ state.net = 0
    BY <2>2 DEF WorstInv, LegsWhileOpen, Recorded
  <2>4. Held /\ history.first \in Amount
    BY DEF TypeOK, Held, StateType, PositionType
  <2>5. PICK d : d = MadeAt(strategy.stop)
    OBVIOUS
  <2>6. d \in Int /\ -d <= MaxPossibleLoss(history.first)
    BY <2>3, <2>4, <2>5, LossCovered
  <2>7. state'.net = 0 + d
    BY <2>3, <2>5
  <2> QED BY <2>6, <2>7
<1> QED BY <1>1, <1>2, <1>3, <1>4 DEF WorstInv

-----------------------------------------------------------------------------
(* The account, step by step.                                              *)

\* What holds of the account between any two steps.
AccountInv == TypeOK /\ LedgerBalances /\ SolventAtClose /\ WorstInv

Phases == {"funding", "carried", "first pass", "second pass", "opened", "late funding",
           "liquidation", "orders", "done"}

\* What the lemmas on money need of the types.
LEMMA TypeHeld == ASSUME TypeOK PROVE Held /\ candle \in Candles /\ history.first \in Amount
BY DEF TypeOK, Held, StateType, PositionType

\* The types after a step within a candle.
LEMMA TypeKept ==
  ASSUME TypeOK, Fixed, phase' \in Phases, DOMAIN positions' \subseteq Grids,
         \A g \in DOMAIN positions' : positions'[g] \in PositionType,
         pending' \subseteq Grids, state' \in StateType, active' \in BOOLEAN
  PROVE  TypeOK'
<1>1. strategy' = strategy /\ scheduled' = scheduled /\ candle' = candle /\ index' = index /\ history' = history
  BY DEF Fixed
<1>2. Grids' = Grids
  BY <1>1, SameStrategy
<1> QED BY <1>1, <1>2 DEF TypeOK, Phases, PositionType, StateType

\* The account is worth the same while it is the same.
LEMMA SameValues ==
  ASSUME strategy' = strategy, candle' = candle, positions' = positions, state' = state
  PROVE  /\ EntryFees' = EntryFees
         /\ Equity(candle.close)' = Equity(candle.close)
         /\ UsedNotional(candle.close)' = UsedNotional(candle.close)
         /\ (Equity(candle.close) > UsedNotional(candle.close) * strategy.mmr)'
              <=> Equity(candle.close) > UsedNotional(candle.close) * strategy.mmr
<1>1. EntryFees' = EntryFees
  BY DEF EntryFees
<1>2. UsedNotional(candle.close)' = UsedNotional(candle.close)
  BY DEF UsedNotional
<1> DEFINE F == [g \in DOMAIN positions |-> GrossOf(positions[g], candle.close)]
           G == [g \in DOMAIN positions |-> GrossOf(positions[g], candle.close)']
<1>3. \A g \in DOMAIN positions : GrossOf(positions[g], candle.close)' = GrossOf(positions[g], candle.close)
  BY DEF GrossOf, IsLong
<1>4. F = G
  BY <1>3
<1>5. UnrealizedPnl(candle.close) = SumFunction(F) /\ UnrealizedPnl(candle.close)' = SumFunction(G)
  BY DEF UnrealizedPnl
<1> HIDE DEF F, G
<1>6. Equity(candle.close)' = Equity(candle.close)
  BY <1>4, <1>5 DEF Equity
<1> QED BY <1>1, <1>2, <1>6

\* And holds the same legs.
LEMMA SameHeld ==
  ASSUME strategy' = strategy, history'.first = history.first, positions' = positions
  PROVE  LegsHeld' = LegsHeld
BY SameLegs DEF LegsHeld

\* The steps that pay or receive funding.
LEMMA FundingAccount ==
  ASSUME AccountInv, NEW STATE notional, notional \in Int,
         ScheduledFunding(notional) \/ LateFunding(notional)
  PROVE  AccountInv'
<1>1. /\ Fixed /\ positions' = positions /\ pending' = pending /\ active' = active
      /\ phase' \in {"carried", "liquidation"}
  BY DEF ScheduledFunding, LateFunding
<1>2. /\ strategy' = strategy /\ history' = history /\ candle' = candle
  BY <1>1 DEF Fixed
<1>3. Held /\ state \in StateType
  BY TypeHeld DEF AccountInv, Held
<1>4. /\ state' \in StateType
      /\ state'.realized - state'.funding = state.realized - state.funding
      /\ state'.fees = state.fees /\ state'.net = state.net
      /\ state'.stops = state.stops /\ state'.reasons = state.reasons
  <2>1. CASE state' = state
    BY <2>1, <1>3
  <2>2. CASE \E rate \in Int : Fund(rate, notional)
    <3>1. PICK rate \in Int : Fund(rate, notional)
      BY <2>2
    <3> QED BY <3>1, <1>3, FundMoney
  <2>3. strategy.rate \in Int /\ Rates \subseteq Int
    BY <1>3, StrategyFacts, UnitAssumption DEF Held
  <2> QED BY <2>1, <2>2, <2>3 DEF ScheduledFunding, LateFunding
<1>5. TypeOK'
  BY <1>1, <1>4, TypeKept DEF AccountInv, TypeOK, Phases, PositionType
<1>6. LedgerBalances'
  <2>1. EntryFees' = EntryFees
    BY <1>1 DEF EntryFees
  <2>2. /\ state.realized \in Int /\ state.fees \in Int /\ state.net \in Int /\ state.funding \in Int
        /\ state'.realized \in Int /\ state'.funding \in Int
    BY <1>3, <1>4, StateFacts
  <2>3. EntryFees \in Int
    BY <1>3, FeesType
  <2> QED BY <2>1, <2>2, <2>3, <1>4 DEF AccountInv, LedgerBalances
<1>7. SolventAtClose'
  BY <1>1 DEF SolventAtClose
<1>8. WorstInv'
  <2>1. LegsHeld' = LegsHeld
    BY <1>1, <1>2, SameHeld
  <2> QED BY <2>1, <1>1, <1>2, <1>4, WorstKept DEF AccountInv, WorstInv, LegsWhileOpen
<1> QED BY <1>5, <1>6, <1>7, <1>8 DEF AccountInv

\* The money after a close.
LEMMA CloseLedger ==
  ASSUME AccountInv, NEW STATE grids, grids \subseteq DOMAIN positions,
         NEW STATE level, \A g \in grids : level[g] \in Amount,
         NEW STATE rate, rate \in Nat, NEW STATE reason,
         reason \in {"grid_take_profit", "stop_loss", "liquidation"},
         Close(grids, level, rate, reason)
  PROVE  LedgerBalances'
<1>1. Held /\ state \in StateType
  BY TypeHeld DEF AccountInv, Held
<1>2. /\ state' \in StateType
      /\ EntryFees \in Int /\ EntryFees' \in Int
      /\ state'.realized - state'.fees - state'.net + EntryFees' =
           state.realized - state.fees - state.net + EntryFees
      /\ state'.funding = state.funding
  <2>1. Closed(grids, level, rate, reason)
    BY <1>1, CloseMoney
  <2> QED BY <2>1 DEF Closed
<1>3. PICK a, b, c, d, e, f, g, h, k :
        /\ a = state.realized /\ b = state.fees /\ c = state.net /\ d = state.funding /\ e = EntryFees
        /\ f = state'.realized /\ g = state'.fees /\ h = state'.net /\ k = EntryFees'
  OBVIOUS
<1>4. /\ a \in Int /\ b \in Int /\ c \in Int /\ d \in Int /\ e \in Int
      /\ f \in Int /\ g \in Int /\ h \in Int /\ k \in Int
  BY <1>1, <1>2, <1>3, StateFacts
<1>5. a - b = c + d - e
  BY <1>3 DEF AccountInv, LedgerBalances
<1>6. f - g = h + d - k
  BY <1>2, <1>3, <1>4, <1>5
<1> QED BY <1>2, <1>3, <1>6 DEF LedgerBalances

\* Closing everything that is held, at the stop or in a liquidation.
LEMMA CloseAll ==
  ASSUME AccountInv, NEW STATE price, price \in Amount, NEW STATE reason,
         reason \in {"stop_loss", "liquidation"}, DOMAIN positions # {},
         Close(DOMAIN positions, At(DOMAIN positions, price), strategy.taker, reason)
  PROVE  /\ DOMAIN positions' = {}
         /\ state' \in StateType
         /\ LedgerBalances'
         /\ state'.stops = IF reason = "stop_loss" THEN state.stops + 1 ELSE state.stops
         /\ state'.reasons = state.reasons \cup {reason}
         /\ state'.net = state.net + MadeAt(price)
<1>1. PICK D, level, rate : D = DOMAIN positions /\ level = At(D, price) /\ rate = strategy.taker
  OBVIOUS
<1>2. Held
  BY TypeHeld DEF AccountInv
<1>3. D \subseteq DOMAIN positions /\ D # {} /\ rate \in Nat /\ \A g \in D : level[g] = price
  BY <1>1, <1>2, StrategyFacts DEF Held, At
<1>4. Close(D, level, rate, reason)
  BY <1>1
<1>5. \A g \in D : level[g] \in Amount
  BY <1>3
<1>6. LedgerBalances'
  BY <1>3, <1>4, <1>5, CloseLedger
<1>7. /\ DOMAIN positions' = DOMAIN positions \ D
      /\ state' \in StateType
      /\ state'.net = state.net + MadeBy(D, level, rate)
      /\ state'.stops = IF reason = "stop_loss" THEN state.stops + 1 ELSE state.stops
      /\ state'.reasons = IF D = {} THEN state.reasons ELSE state.reasons \cup {reason}
  <2>1. reason \in {"grid_take_profit", "stop_loss", "liquidation"}
    OBVIOUS
  <2>2. Closed(D, level, rate, reason)
    BY <2>1, <1>2, <1>3, <1>4, <1>5, CloseMoney
  <2> QED BY <2>2 DEF Closed
<1>8. [g \in D |-> NetOf(positions[g], ExitPrice(level[g]), rate)] =
      [g \in D |-> NetOf(positions[g], ExitPrice(price), rate)]
  BY <1>3
<1>9. MadeBy(D, level, rate) = MadeAt(price)
  BY <1>1, <1>8 DEF MadeBy, MadeAt
<1> QED BY <1>1, <1>3, <1>6, <1>7, <1>9

\* The two passes of execute_stop_loss.
LEMMA StopAccount == ASSUME AccountInv, StopCarried \/ StopOpened PROVE AccountInv'
<1>1. /\ Fixed /\ pending' = pending /\ StopLoss /\ phase' \in {"first pass", "late funding"}
  BY DEF StopCarried, StopOpened
<1>2. strategy' = strategy /\ history' = history /\ candle' = candle
  BY <1>1 DEF Fixed
<1>3. Held /\ TypeOK /\ WorstInv /\ LedgerBalances
  BY TypeHeld DEF AccountInv
<1>4. SolventAtClose'
  BY <1>1 DEF SolventAtClose
<1>5. CASE StopIsTouched /\ DOMAIN positions # {}
  <2>3. strategy.stop \in Amount /\ strategy.taker \in Nat /\ strategy.reopen \in BOOLEAN
    BY <1>3, StrategyFacts DEF Held
  <2>1. PICK price, reason : price = strategy.stop /\ reason = "stop_loss"
    OBVIOUS
  <2>2. /\ Close(DOMAIN positions, At(DOMAIN positions, price), strategy.taker, reason)
        /\ active' = strategy.reopen
    BY <1>1, <1>5, <2>1 DEF StopLoss
  <2>4. /\ DOMAIN positions' = {}
        /\ state' \in StateType
        /\ LedgerBalances'
        /\ state'.stops = IF reason = "stop_loss" THEN state.stops + 1 ELSE state.stops
        /\ state'.reasons = state.reasons \cup {reason}
        /\ state'.net = state.net + MadeAt(price)
    BY <1>5, <2>1, <2>2, <2>3, CloseAll
  <2>5. /\ state'.stops = state.stops + 1
        /\ state'.reasons = state.reasons \cup {"stop_loss"}
        /\ state'.net = state.net + MadeAt(strategy.stop)
    BY <2>1, <2>4
  <2>6. WorstInv'
    BY <1>1, <1>2, <1>3, <2>5, WorstStopped
  <2>8. TypeOK'
    BY <1>1, <1>3, <2>2, <2>3, <2>4, TypeKept DEF TypeOK, Phases
  <2> QED BY <1>4, <2>4, <2>6, <2>8 DEF AccountInv
<1>6. CASE ~(StopIsTouched /\ DOMAIN positions # {})
  <2>1. positions' = positions /\ state' = state /\ active' = active
    BY <1>1, <1>6 DEF StopLoss
  <2>2. TypeOK'
    BY <1>1, <1>3, <2>1, TypeKept DEF TypeOK, Phases, PositionType, StateType
  <2>3. LedgerBalances'
    BY <1>3, <2>1 DEF LedgerBalances, EntryFees
  <2>4. LegsHeld' = LegsHeld
    BY <1>2, <2>1, SameHeld
  <2>5. WorstInv'
    BY <1>1, <1>2, <1>3, <2>1, <2>4, WorstKept DEF WorstInv, LegsWhileOpen
  <2> QED BY <1>4, <2>2, <2>3, <2>5 DEF AccountInv
<1> QED BY <1>5, <1>6

\* run_open_pass: what is filled is a leg of the worst case.
LEMMA OpenAccount ==
  ASSUME AccountInv, NEW STATE touched, OpenPass(touched)
  PROVE  AccountInv'
<1> PICK filled : filled = (pending \cap touched) \ DOMAIN positions
  OBVIOUS
<1> PICK level : level = [g \in filled |-> EntryLevel(g)]
  OBVIOUS
<1>1. /\ Fixed /\ active' = active /\ pending' \subseteq pending
      /\ phase' \in {"second pass", "opened"}
      /\ Open(filled, level, strategy.maker)
  BY DEF OpenPass, NextPass
<1>2. strategy' = strategy /\ history' = history /\ candle' = candle
  BY <1>1 DEF Fixed
<1>3. Held /\ TypeOK /\ WorstInv /\ LedgerBalances /\ history.first \in Amount
  BY TypeHeld DEF AccountInv
<1>4. filled \subseteq Grids /\ filled \cap DOMAIN positions = {} /\ filled \subseteq pending
  BY <1>3 DEF TypeOK
<1>5. \A g \in filled : level[g] = EntryLevel(g) /\ level[g] \in Amount
  BY <1>3, <1>4, LevelType DEF Held
<1> PICK rate : rate = strategy.maker
  OBVIOUS
<1>6. rate \in Nat
  BY <1>3, StrategyFacts DEF Held
<1>7. Opened(filled, level, rate)
  BY <1>1, <1>3, <1>4, <1>5, <1>6, OpenMoney
<1>8. /\ \A g \in DOMAIN positions : g \in DOMAIN positions' /\ positions'[g] = positions[g]
      /\ \A g \in DOMAIN positions' \ DOMAIN positions :
           /\ g \in filled /\ Accepted(EntryPrice(level[g]))
           /\ positions'[g] = Position(level[g], rate)
      /\ \A g \in DOMAIN positions' : positions'[g] \in PositionType
      /\ state' \in StateType
      /\ EntryFees \in Int /\ EntryFees' \in Int
      /\ state'.fees - EntryFees' = state.fees - EntryFees
      /\ state'.realized = state.realized /\ state'.funding = state.funding
      /\ state'.net = state.net /\ state'.stops = state.stops /\ state'.reasons = state.reasons
  BY <1>7 DEF Opened
<1>9. DOMAIN positions' \subseteq Grids
  BY <1>3, <1>4, <1>8 DEF Held
<1>10. TypeOK'
  BY <1>1, <1>3, <1>8, <1>9, TypeKept DEF TypeOK, Phases
<1>11. LedgerBalances'
  <2>1. /\ state.realized \in Int /\ state.fees \in Int /\ state.net \in Int /\ state.funding \in Int
        /\ state'.fees \in Int
    BY <1>3, <1>8, StateFacts DEF Held
  <2>2. PICK a, b, c, d, e, f, h : /\ a = state.realized /\ b = state.fees /\ c = state.net
                                   /\ d = state.funding /\ e = EntryFees
                                   /\ f = state'.fees /\ h = EntryFees'
    OBVIOUS
  <2>3. /\ a \in Int /\ b \in Int /\ c \in Int /\ d \in Int /\ e \in Int /\ f \in Int /\ h \in Int
    BY <1>8, <2>1, <2>2
  <2>4. a - b = c + d - e /\ f - h = b - e
    BY <1>3, <1>8, <2>2 DEF LedgerBalances
  <2>5. a - f = c + d - h
    BY <2>3, <2>4
  <2> QED BY <1>8, <2>2, <2>5 DEF LedgerBalances
<1>12. SolventAtClose'
  BY <1>1 DEF SolventAtClose
<1>13. ASSUME Estimated, history.adverse, state.reasons = {}
       PROVE  LegsHeld'
  <2> PICK legs, base : legs = WorstCaseLegs(history.first) /\ base = BaseGrids(history.first)
    OBVIOUS
  <2>1. /\ \A g \in DOMAIN positions : g \in DOMAIN legs /\ positions[g] = legs[g]
        /\ base \cap DOMAIN legs \subseteq DOMAIN positions
    BY <1>3, <1>13 DEF WorstInv, LegsWhileOpen, LegsHeld
  <2>2. strategy \in Strategies
    BY <1>3 DEF Held
  <2>3. ASSUME NEW g \in DOMAIN positions' \ DOMAIN positions
        PROVE  g \in DOMAIN legs /\ positions'[g] = legs[g]
    <3>1. /\ g \in pending /\ g \in Grids
          /\ Accepted(EntryPrice(EntryLevel(g)))
          /\ positions'[g] = Position(EntryLevel(g), strategy.maker)
      BY <1>4, <1>5, <1>8
    <3>2. EntryIsAdverse(g, history.first)
      BY <3>1, <1>3, <1>13 DEF WorstInv, AdverseSoFar
    <3>3. g \notin base
      <4> SUFFICES ASSUME g \in base PROVE FALSE
        OBVIOUS
      <4>1. EntryLevel(g) = history.first
        BY <3>1, <3>2, <1>3, <2>2, LevelType DEF BaseGrids, EntryIsAdverse, EntryLevel, Amount
      <4>2. g \in DOMAIN legs
        BY <3>1, <4>1, <1>3, <2>2, LegFacts
      <4> QED BY <2>1, <4>2
    <3>4. EntryLevel(g) # history.first
      <4> SUFFICES ASSUME EntryLevel(g) = history.first PROVE FALSE
        OBVIOUS
      <4>1. CASE strategy.base
        BY <3>1, <3>3, <4>1, <1>3, <2>2, LevelType DEF BaseGrids, EntryLevel, Amount
      <4>2. CASE \A i \in 0 .. strategy.grids : Line(i) # history.first
        <5>1. g \in 0 .. strategy.grids /\ g + 1 \in 0 .. strategy.grids
          BY <3>1, <2>2, StrategyFacts DEF Grids
        <5> QED BY <4>2, <5>1 DEF EntryLevel
      <4> QED BY <1>13, <4>1, <4>2 DEF Estimated
    <3>5. g \in DOMAIN legs /\ legs[g] = Position(EntryLevel(g), strategy.maker)
      BY <3>1, <3>2, <3>3, <3>4, <1>3, <2>2, LegFacts
    <3> QED BY <3>1, <3>5
  <2>4. /\ WorstCaseLegs(history.first)' = legs
        /\ BaseGrids(history.first)' = base
    BY <1>2, SameLegs
  <2> QED BY <1>8, <2>1, <2>3, <2>4 DEF LegsHeld
<1>14. WorstInv'
  BY <1>1, <1>2, <1>3, <1>8, <1>13, WorstKept
<1> QED BY <1>10, <1>11, <1>12, <1>14 DEF AccountInv

\* run_close_pass.
LEMMA CloseAccount ==
  ASSUME AccountInv, NEW STATE touched, ClosePass(touched)
  PROVE  AccountInv'
<1> PICK reached : reached = DOMAIN positions \cap touched
  OBVIOUS
<1> PICK level : level = [g \in reached |-> ExitLevel(g)]
  OBVIOUS
<1>1. /\ Fixed /\ active' = active /\ pending' = pending
      /\ phase' \in {"second pass", "opened"}
      /\ Close(reached, level, strategy.maker, "grid_take_profit")
  BY DEF ClosePass, NextPass
<1>2. strategy' = strategy /\ history' = history /\ candle' = candle
  BY <1>1 DEF Fixed
<1>3. Held /\ TypeOK /\ WorstInv /\ LedgerBalances
  BY TypeHeld DEF AccountInv
<1>4. reached \subseteq DOMAIN positions /\ reached \subseteq Grids
  BY <1>3 DEF Held
<1>5. \A g \in reached : level[g] \in Amount
  BY <1>3, <1>4, LevelType DEF Held
<1>6. PICK rate, reason : rate = strategy.maker /\ reason = "grid_take_profit"
  OBVIOUS
<1>7. rate \in Nat /\ reason \in {"grid_take_profit", "stop_loss", "liquidation"}
  BY <1>3, <1>6, StrategyFacts DEF Held
<1>8. Close(reached, level, rate, reason)
  BY <1>1, <1>6
<1>9. Closed(reached, level, rate, reason)
  BY <1>3, <1>4, <1>5, <1>7, <1>8, CloseMoney
<1>10. LedgerBalances'
  BY <1>4, <1>5, <1>7, <1>8, CloseLedger
<1>11. /\ DOMAIN positions' = DOMAIN positions \ reached
       /\ \A g \in DOMAIN positions' : positions'[g] = positions[g]
       /\ state' \in StateType
       /\ state'.net = state.net + MadeBy(reached, level, rate)
       /\ state'.stops = state.stops
       /\ state'.reasons = IF reached = {} THEN state.reasons ELSE state.reasons \cup {reason}
  BY <1>6, <1>9 DEF Closed
<1>12. TypeOK'
  BY <1>1, <1>3, <1>11, TypeKept DEF TypeOK, Held, Phases
<1>13. SolventAtClose'
  BY <1>1 DEF SolventAtClose
<1>14. WorstInv'
  <2>1. CASE reached = {}
    <3>1. MadeBy(reached, level, rate) = 0
      BY <2>1, SumEmpty DEF MadeBy
    <3>2. state'.net = state.net
      BY <3>1, <1>3, <1>11, StateFacts DEF Held
    <3>3. DOMAIN positions' = DOMAIN positions
      BY <2>1, <1>11
    <3>4. WorstCaseLegs(history.first)' = WorstCaseLegs(history.first)
          /\ BaseGrids(history.first)' = BaseGrids(history.first)
      BY <1>2, SameLegs
    <3>5. LegsHeld => LegsHeld'
      BY <3>3, <3>4, <1>11 DEF LegsHeld
    <3> QED BY <1>1, <1>2, <1>3, <1>11, <2>1, <3>2, <3>5, WorstKept DEF WorstInv, LegsWhileOpen
  <2>2. CASE reached # {}
    BY <2>2, <1>1, <1>2, <1>3, <1>6, <1>11, WorstOther
  <2> QED BY <2>1, <2>2
<1> QED BY <1>10, <1>12, <1>13, <1>14 DEF AccountInv

\* The liquidation check.
LEMMA LiquidationAccount ==
  ASSUME AccountInv, NEW STATE equity, NEW STATE used, Liquidation(equity, used),
         equity = Equity(LiquidationPrice), used = UsedNotional(LiquidationPrice)
  PROVE  AccountInv'
<1>1. Fixed /\ pending' = pending /\ phase' = "orders"
  BY DEF Liquidation
<1>2. strategy' = strategy /\ history' = history /\ candle' = candle
  BY <1>1 DEF Fixed
<1>3. Held /\ TypeOK /\ WorstInv /\ LedgerBalances /\ candle \in Candles
  BY TypeHeld DEF AccountInv
<1>4. LiquidationPrice \in Amount
  BY <1>3, CandleFacts DEF LiquidationPrice
<1>5. CASE DOMAIN positions # {} /\ equity <= used * strategy.mmr
  <2>1. PICK price, reason : price = LiquidationPrice /\ reason = "liquidation"
    OBVIOUS
  <2>2. /\ Close(DOMAIN positions, At(DOMAIN positions, price), strategy.taker, reason)
        /\ active' = FALSE
    BY <1>5, <2>1 DEF Liquidation
  <2>3. /\ DOMAIN positions' = {}
        /\ state' \in StateType
        /\ LedgerBalances'
        /\ state'.stops = IF reason = "stop_loss" THEN state.stops + 1 ELSE state.stops
        /\ state'.reasons = state.reasons \cup {reason}
    BY <1>4, <1>5, <2>1, <2>2, CloseAll
  <2>4. TypeOK'
    BY <1>1, <1>3, <2>2, <2>3, TypeKept DEF TypeOK, Phases
  <2>5. SolventAtClose'
    BY <2>3 DEF SolventAtClose
  <2>6. WorstInv'
    BY <1>1, <1>2, <1>3, <2>1, <2>3, WorstOther
  <2> QED BY <2>3, <2>4, <2>5, <2>6 DEF AccountInv
<1>6. CASE ~(DOMAIN positions # {} /\ equity <= used * strategy.mmr)
  <2>1. positions' = positions /\ state' = state /\ active' = active
    BY <1>6 DEF Liquidation
  <2>2. TypeOK'
    BY <1>1, <1>3, <2>1, TypeKept DEF TypeOK, Phases, PositionType, StateType
  <2>3. LedgerBalances'
    BY <1>3, <2>1 DEF LedgerBalances, EntryFees
  <2>4. LegsHeld' = LegsHeld
    BY <1>2, <2>1, SameHeld
  <2>5. WorstInv'
    BY <1>1, <1>2, <1>3, <2>1, <2>4, WorstKept DEF WorstInv, LegsWhileOpen
  <2>6. SolventAtClose'
    <3> SUFFICES ASSUME DOMAIN positions # {}
                 PROVE  (Equity(candle.close) > UsedNotional(candle.close) * strategy.mmr)'
      BY <2>1 DEF SolventAtClose
    <3>1. ~(equity <= used * strategy.mmr)
      BY <1>6
    <3>2. equity \in Int /\ used * strategy.mmr \in Int
      <4>1. equity \in Int /\ used \in Int /\ strategy.mmr \in Int
        BY <1>3, <1>4, ValueType, StrategyFacts DEF Held, Amount
      <4> QED BY <4>1
    <3>3. equity > used * strategy.mmr
      BY <3>1, <3>2
    <3>4. Equity(candle.close) > UsedNotional(candle.close) * strategy.mmr
      BY <1>3, <3>3, SolventPrice
    <3> QED BY <1>2, <2>1, <3>4, SameValues
  <2> QED BY <2>2, <2>3, <2>5, <2>6 DEF AccountInv
<1> QED BY <1>5, <1>6

\* The orders of refresh_pending_orders are for grids, on the side that waits for the price.
LEMMA RefreshedFacts ==
  ASSUME NEW STATE orders, NEW STATE held, NEW STATE price, NEW STATE equity, NEW STATE used,
         orders \subseteq Grids
  PROVE  /\ Refreshed(orders, held, price, equity, used) \subseteq Grids
         /\ \A g \in Refreshed(orders, held, price, equity, used) : EntryIsAdverse(g, price)
BY DEF Refreshed

\* The orders for the next candle, and the next candle.
LEMMA OrdersAccount ==
  ASSUME AccountInv, NEW STATE equity, NEW STATE used, Orders(equity, used)
  PROVE  AccountInv'
<1>1. /\ strategy' = strategy /\ scheduled' = scheduled /\ positions' = positions
      /\ state' = state /\ active' = active /\ phase' \in {"funding", "done"}
  BY DEF Orders
<1>2. Held /\ TypeOK /\ WorstInv /\ LedgerBalances /\ candle \in Candles /\ history.first \in Amount
  BY TypeHeld DEF AccountInv
<1>3. /\ pending' \subseteq Grids
      /\ \A g \in pending' : EntryIsAdverse(g, candle.close)
  BY <1>2, RefreshedFacts DEF Orders, TypeOK
<1>4. \/ /\ candle' \in Candles /\ index' = index + 1 /\ index < MaxCandles
         /\ history' = [history EXCEPT !.adverse = @ /\ IF IsLong THEN candle'.close <= history.first
                                                                 ELSE candle'.close >= history.first]
      \/ UNCHANGED <<candle, index, history>>
  BY DEF Orders
<1>5. /\ history' \in [first : Amount, adverse : BOOLEAN]
      /\ history'.first = history.first
      /\ history'.adverse => history.adverse
      /\ history'.adverse => IF IsLong THEN candle'.close <= history.first
                                       ELSE candle'.close >= history.first
      /\ candle' \in Candles /\ index' \in 1 .. MaxCandles
  <2>1. history \in [first : Amount, adverse : BOOLEAN] /\ index \in 1 .. MaxCandles
    BY <1>2 DEF TypeOK
  <2>2. CASE UNCHANGED <<candle, index, history>>
    BY <1>2, <2>1, <2>2 DEF WorstInv, AdverseSoFar
  <2>3. CASE /\ candle' \in Candles /\ index' = index + 1 /\ index < MaxCandles
             /\ history' = [history EXCEPT !.adverse = @ /\ IF IsLong THEN candle'.close <= history.first
                                                                 ELSE candle'.close >= history.first]
    <3>1. index' \in 1 .. MaxCandles
      BY <2>1, <2>3, UnitAssumption
    <3>2. PICK b : b = (history.adverse /\ IF IsLong THEN candle'.close <= history.first
                                                     ELSE candle'.close >= history.first)
      OBVIOUS
    <3>3. b \in BOOLEAN
      BY <3>2, <2>1
    <3>4. history' = [history EXCEPT !.adverse = b]
      BY <2>3, <3>2
    <3>5. history' \in [first : Amount, adverse : BOOLEAN] /\ history'.first = history.first
          /\ history'.adverse = b
      BY <2>1, <3>3, <3>4
    <3> QED BY <2>3, <3>1, <3>2, <3>5
  <2> QED BY <1>4, <2>2, <2>3
<1>6. Grids' = Grids /\ IsLong' = IsLong
  BY <1>1, SameStrategy
<1>7. TypeOK'
  BY <1>1, <1>2, <1>3, <1>5, <1>6 DEF TypeOK
<1>8. LedgerBalances'
  BY <1>1, <1>2 DEF LedgerBalances, EntryFees
<1>9. SolventAtClose'
  BY <1>1 DEF SolventAtClose
<1>10. Recorded'
  BY <1>1, <1>2 DEF WorstInv, Recorded
<1>11. AdverseSoFar'
  <2> SUFFICES ASSUME history'.adverse, NEW g \in pending'
               PROVE  EntryIsAdverse(g, history.first)
    BY <1>1, <1>5, <1>6, SameEstimate DEF AdverseSoFar
  <2>1. IF IsLong THEN candle.close <= history.first ELSE candle.close >= history.first
    BY <1>2, <1>5 DEF WorstInv, AdverseSoFar
  <2>2. EntryLevel(g) \in Nat /\ candle.close \in Nat /\ history.first \in Nat
    BY <1>2, <1>3, LevelType, CandleFacts DEF Held, Amount
  <2> QED BY <1>3, <2>1, <2>2 DEF EntryIsAdverse
<1>12. LegsWhileOpen'
  BY <1>1, <1>2, <1>5, SameEstimate, SameHeld DEF WorstInv, LegsWhileOpen
<1>13. WorstCaseCovers'
  BY <1>1, <1>2, <1>5, SameEstimate, SameLoss DEF WorstInv, WorstCaseCovers, LossIsWithin, Estimated
<1> QED BY <1>7, <1>8, <1>9, <1>10, <1>11, <1>12, <1>13 DEF AccountInv, WorstInv

\* The base position is the base of the worst case.
LEMMA InitAccount == ASSUME Init PROVE AccountInv
<1> PICK price : price = candle.close
  OBVIOUS
<1> PICK base : base = {h \in BaseGrids(price) : Accepted(EntryPrice(price))}
  OBVIOUS
<1>1. /\ strategy \in Strategies /\ candle \in Candles /\ price \in Amount
      /\ history = [first |-> price, adverse |-> TRUE] /\ phase = "funding" /\ active = TRUE
      /\ positions = [g \in base |-> Position(price, strategy.taker)]
      /\ state = [realized |-> 0, fees |-> EntryFees, funding |-> 0, net |-> 0,
                  stops |-> 0, reasons |-> {}]
  BY CandleFacts DEF Init
<1>2. base \subseteq Grids /\ strategy.taker \in Nat
  BY <1>1, StrategyFacts DEF BaseGrids
<1>3. \A g \in DOMAIN positions : positions[g] \in PositionType
  BY <1>1, <1>2, PositionTyped
<1>4. EntryFees \in Int
  <2>1. \A g \in DOMAIN positions : Fees(positions)[g] \in Int
    BY <1>3 DEF Fees, PositionType
  <2>2. IsFiniteSet(DOMAIN positions)
    BY <1>1, <1>2, GridsFinite, FS_Subset
  <2> QED BY <2>1, <2>2, EntryFeesAre, SumInt
<1>5. state \in StateType
  BY <1>1, <1>4 DEF StateType
<1>6. pending \subseteq Grids /\ \A g \in pending : EntryIsAdverse(g, price)
  BY <1>1, RefreshedFacts DEF Init
<1>7. TypeOK
  BY <1>1, <1>2, <1>3, <1>5, <1>6, UnitAssumption DEF Init, TypeOK, PositionType, StateType
<1>8. LedgerBalances
  <2>1. /\ state.realized = 0 /\ state.fees = EntryFees /\ state.net = 0 /\ state.funding = 0
    BY <1>1
  <2> QED BY <2>1, <1>4 DEF LedgerBalances
<1>9. SolventAtClose
  BY <1>1 DEF SolventAtClose
<1>10. Recorded
  BY <1>1 DEF Recorded
<1>11. AdverseSoFar
  <2>1. history.first = price /\ price >= price
    BY <1>1 DEF Amount
  <2> QED BY <1>6, <2>1 DEF AdverseSoFar
<1>12. LegsHeld
  <2> PICK legs : legs = WorstCaseLegs(price)
    OBVIOUS
  <2>1. history.first = price
    BY <1>1
  <2>2. ASSUME NEW g \in Grids, g \in BaseGrids(price)
        PROVE  (g \in DOMAIN legs <=> Accepted(EntryPrice(price)))
               /\ (g \in DOMAIN legs => legs[g] = Position(price, strategy.taker))
    BY <2>2 DEF WorstCaseLegs
  <2>3. ASSUME NEW g \in DOMAIN positions PROVE g \in DOMAIN legs /\ positions[g] = legs[g]
    <3>1. g \in base /\ g \in Grids /\ g \in BaseGrids(price) /\ Accepted(EntryPrice(price))
      BY <1>1, <1>2, <2>3
    <3> QED BY <1>1, <2>2, <3>1
  <2>4. BaseGrids(price) \cap DOMAIN legs \subseteq DOMAIN positions
    <3>1. BaseGrids(price) \subseteq Grids
      BY DEF BaseGrids
    <3> QED BY <1>1, <2>2, <3>1
  <2> QED BY <2>1, <2>3, <2>4 DEF LegsHeld
<1>13. WorstCaseCovers
  BY <1>1 DEF WorstCaseCovers, LossIsWithin
<1> QED BY <1>7, <1>8, <1>9, <1>10, <1>11, <1>12, <1>13 DEF AccountInv, WorstInv, LegsWhileOpen

\* Nothing happens.
LEMMA StutterAccount == ASSUME AccountInv, UNCHANGED vars PROVE AccountInv'
<1>1. /\ strategy' = strategy /\ scheduled' = scheduled /\ candle' = candle /\ index' = index
      /\ phase' = phase /\ positions' = positions /\ pending' = pending /\ state' = state
      /\ active' = active /\ history' = history
  BY DEF vars
<1>2. TypeOK /\ WorstInv /\ LedgerBalances /\ SolventAtClose
  BY DEF AccountInv
<1>3. TypeOK'
  BY <1>1, <1>2, SameStrategy DEF TypeOK
<1>4. LedgerBalances'
  BY <1>1, <1>2 DEF LedgerBalances, EntryFees
<1>5. SolventAtClose'
  BY <1>1, <1>2, SameValues DEF SolventAtClose
<1>6. WorstInv'
  BY <1>1, <1>2, SameHeld, WorstKept DEF WorstInv, LegsWhileOpen
<1> QED BY <1>3, <1>4, <1>5, <1>6 DEF AccountInv

\* Every step of the engine.
LEMMA EngineStep == ASSUME AccountInv, [Next]_vars PROVE AccountInv'
<1>1. Held /\ candle \in Candles
  BY TypeHeld DEF AccountInv
<1>2. CASE ScheduledFunding(UsedNotional(candle.open)) \/ LateFunding(UsedNotional(candle.close))
  <2>1. UsedNotional(candle.open) \in Int /\ UsedNotional(candle.close) \in Int
    BY <1>1, CandleFacts, ValueType
  <2> QED BY <1>2, <2>1, FundingAccount
<1>3. CASE StopCarried \/ StopOpened
  BY <1>3, StopAccount
<1>4. CASE OpenPass(EntriesTouched)
  BY <1>4, OpenAccount
<1>5. CASE ClosePass(ExitsTouched)
  BY <1>5, CloseAccount
<1>6. CASE Liquidation(Equity(LiquidationPrice), UsedNotional(LiquidationPrice))
  BY <1>6, LiquidationAccount
<1>7. CASE Orders(Equity(candle.close), UsedNotional(candle.close))
  BY <1>7, OrdersAccount
<1>8. CASE UNCHANGED vars
  BY <1>8, StutterAccount
<1> QED BY <1>2, <1>3, <1>4, <1>5, <1>6, <1>7, <1>8 DEF Next, Done

\* The account of a backtest.
THEOREM EngineAccount == Spec => []AccountInv
<1>1. AccountInv /\ [Next]_vars => AccountInv'
  BY EngineStep
<1> QED BY <1>1, InitAccount, PTL DEF Spec

-----------------------------------------------------------------------------
(* The grids that the compact engine finds touched.                        *)

\* A set of naturals that has something has a least.
LEMMA Least ==
  ASSUME NEW T \in SUBSET Nat, T # {}
  PROVE  \E k \in T : \A i \in T : k <= i
<1> DEFINE R == OpToRel(<, Nat)
<1>1. IsWellFoundedOn(R, Nat)
  BY NatLessThanWellFounded
<1> HIDE DEF R
<1>2. PICK k \in T : \A i \in T : <<i, k>> \notin R
  BY <1>1, WFMin
<1>3. ASSUME NEW i \in T PROVE k <= i
  <2>1. i \in Nat /\ k \in Nat /\ ~(i < k)
    BY <1>2 DEF R, OpToRel
  <2> QED BY <2>1
<1> QED BY <1>3

\* Counting what comes first.
LEMMA Counted ==
  ASSUME NEW n \in Nat, NEW T \in SUBSET (0 .. n), \A i \in T : \A j \in 0 .. i : j \in T
  PROVE  Cardinality(T) \in 0 .. n + 1 /\ \A i \in 0 .. n : i \in T <=> i < Cardinality(T)
<1>1. n + 1 \in Nat \ T
  OBVIOUS
<1>2. PICK k \in Nat \ T : \A i \in Nat \ T : k <= i
  BY <1>1, Least
<1>3. T = 0 .. (k - 1)
  <2>1. ASSUME NEW i \in 0 .. (k - 1) PROVE i \in T
    BY <1>2
  <2>2. ASSUME NEW i \in T PROVE i \in 0 .. (k - 1)
    <3>1. i \in Nat /\ ~(k <= i)
      BY <1>2
    <3> QED BY <3>1
  <2> QED BY <2>1, <2>2
<1>4. Cardinality(T) = k
  <2>1. PICK a, b : a = 0 /\ b = k - 1
    OBVIOUS
  <2>2. a \in Int /\ b \in Int
    BY <2>1
  <2>3. Cardinality(a .. b) = IF a > b THEN 0 ELSE b - a + 1
    BY <2>2, FS_Interval
  <2> QED BY <1>3, <2>1, <2>3
<1>5. k <= n + 1
  BY <1>1, <1>2
<1> QED BY <1>3, <1>4, <1>5

\* The lines rise.
LEMMA LinesRise ==
  ASSUME strategy \in Strategies, NEW i \in Nat, NEW j \in 0 .. i
  PROVE  Line(j) <= Line(i)
<1>1. strategy.lower \in Nat /\ strategy.step \in Nat
  BY StrategyFacts DEF Amount
<1>2. j * strategy.step <= i * strategy.step /\ j * strategy.step \in Nat /\ i * strategy.step \in Nat
  BY <1>1, Products
<1> QED BY <1>1, <1>2 DEF Line

\* Bisection finds the lines below a price.
LEMMA LinesBisected ==
  ASSUME strategy \in Strategies, NEW price \in Amount
  PROVE  /\ BisectLeft(price) \in 0 .. strategy.grids + 1
         /\ BisectRight(price) \in 0 .. strategy.grids + 1
         /\ \A i \in 0 .. strategy.grids : /\ i < BisectLeft(price) <=> Line(i) < price
                                           /\ i < BisectRight(price) <=> Line(i) <= price
<1> PICK n : n = strategy.grids
  OBVIOUS
<1> DEFINE L == {i \in 0 .. n : Line(i) < price}
           R == {i \in 0 .. n : Line(i) <= price}
<1>1. n \in Nat /\ price \in Nat
  BY StrategyFacts DEF Amount
<1>2. \A i \in 0 .. n : Line(i) \in Nat /\ \A j \in 0 .. i : Line(j) \in Nat /\ Line(j) <= Line(i)
  BY <1>1, LinesRise, LineType DEF Amount
<1>3. \A i \in L : \A j \in 0 .. i : j \in L
  BY <1>1, <1>2
<1>4. \A i \in R : \A j \in 0 .. i : j \in R
  BY <1>1, <1>2
<1>5. L \in SUBSET (0 .. n) /\ R \in SUBSET (0 .. n)
  OBVIOUS
<1>6. BisectLeft(price) = Cardinality(L) /\ BisectRight(price) = Cardinality(R)
  BY DEF BisectLeft, BisectRight
<1>7. \A i \in 0 .. n : (i \in L <=> Line(i) < price) /\ (i \in R <=> Line(i) <= price)
  OBVIOUS
<1> HIDE DEF L, R
<1>8. Cardinality(L) \in 0 .. n + 1 /\ \A i \in 0 .. n : i \in L <=> i < Cardinality(L)
  BY <1>1, <1>3, <1>5, Counted
<1>9. Cardinality(R) \in 0 .. n + 1 /\ \A i \in 0 .. n : i \in R <=> i < Cardinality(R)
  BY <1>1, <1>4, <1>5, Counted
<1> QED BY <1>6, <1>7, <1>8, <1>9

\* The line range of the compact engine is the lines within the candle.
LEMMA RangeIs ==
  ASSUME strategy \in Strategies, candle \in Candles
  PROVE  TouchedLineRange = {i \in 0 .. strategy.grids : Touched(Line(i))}
<1> PICK n, a, b : n = strategy.grids /\ a = BisectLeft(candle.low) /\ b = BisectRight(candle.high)
  OBVIOUS
<1>1. candle.low \in Amount /\ candle.high \in Amount /\ n \in Nat
  BY CandleFacts, StrategyFacts
<1>2. a \in 0 .. n + 1 /\ b \in 0 .. n + 1
      /\ \A i \in 0 .. n : (i < a <=> Line(i) < candle.low) /\ (i < b <=> Line(i) <= candle.high)
  BY <1>1, LinesBisected
<1>3. \A i \in 0 .. n : Line(i) \in Nat /\ candle.low \in Nat /\ candle.high \in Nat
  BY <1>1, LineType DEF Amount
<1>4. TouchedLineRange = a .. (b - 1)
  BY DEF TouchedLineRange
<1>5. \A i \in 0 .. n : i \in a .. (b - 1) <=> Touched(Line(i))
  BY <1>1, <1>2, <1>3 DEF Touched
<1>6. a .. (b - 1) \subseteq 0 .. n
  BY <1>1, <1>2
<1> QED BY <1>4, <1>5, <1>6

\* The least and the greatest of what lies between two numbers.
LEMMA Ends ==
  ASSUME NEW a \in Int, NEW b \in Int, a <= b
  PROVE  Min(a .. b) = a /\ Max(a .. b) = b
<1>1. a \in a .. b /\ b \in a .. b /\ \A y \in a .. b : a <= y /\ y <= b
  OBVIOUS
<1>2. \A x \in a .. b : (\A y \in a .. b : x <= y) => x = a
  BY <1>1
<1>3. \A x \in a .. b : (\A y \in a .. b : x >= y) => x = b
  BY <1>1
<1> QED BY <1>1, <1>2, <1>3 DEF Min, Max

\* The smaller and the larger of two numbers.
LEMMA Pair ==
  ASSUME NEW a \in Int, NEW b \in Int
  PROVE  /\ Min({a, b}) = IF a <= b THEN a ELSE b
         /\ Max({a, b}) = IF a >= b THEN a ELSE b
<1>1. \E x \in {a, b} : \A y \in {a, b} : x <= y
  OBVIOUS
<1>2. \E x \in {a, b} : \A y \in {a, b} : x >= y
  OBVIOUS
<1> QED BY <1>1, <1>2 DEF Min, Max

\* The grids that the compact engine goes through are those that the engine finds touched.
LEMMA TouchedAre ==
  ASSUME strategy \in Strategies, candle \in Candles
  PROVE  OpenRange = EntriesTouched /\ CloseRange = ExitsTouched
<1> PICK n, a, b : n = strategy.grids /\ a = BisectLeft(candle.low) /\ b = BisectRight(candle.high) - 1
  OBVIOUS
<1>1. n \in Nat /\ n >= 2 /\ Grids = 0 .. n - 1
  BY StrategyFacts DEF Grids
<1>2. a \in 0 .. n + 1 /\ b + 1 \in 0 .. n + 1 /\ a \in Int /\ b \in Int
  <2>1. candle.low \in Amount /\ candle.high \in Amount
    BY CandleFacts
  <2> QED BY <1>1, <2>1, LinesBisected
<1>3. TouchedLineRange = a .. b
  BY DEF TouchedLineRange
<1>4. \A i \in 0 .. n : i \in a .. b <=> Touched(Line(i))
  BY <1>3, RangeIs
<1>5. \A g \in Grids : g \in 0 .. n /\ g + 1 \in 0 .. n
  BY <1>1
<1>6. CloseRange = ExitsTouched
  BY <1>3, <1>4, <1>5 DEF CloseRange, ExitsTouched, ExitLevel
<1>7. EntriesTouched = {g \in Grids : (IF IsLong THEN g ELSE g + 1) \in a .. b}
  BY <1>4, <1>5 DEF EntriesTouched, EntryLevel
<1>8. CASE a .. b = {}
  BY <1>3, <1>6, <1>7, <1>8 DEF OpenRange
<1>9. CASE a .. b # {}
  <2>1. a <= b
    BY <1>2, <1>9
  <2>2. Min(TouchedLineRange) = a /\ Max(TouchedLineRange) = b
    BY <1>2, <1>3, <2>1, Ends
  <2>3. OpenRange = IF IsLong THEN a .. Min({n - 1, b})
                              ELSE Max({0, a - 1}) .. Min({n - 1, b - 1})
    BY <1>3, <1>9, <2>2 DEF OpenRange
  <2>4. PICK z, c, d, e : z = 0 /\ c = a - 1 /\ d = b - 1 /\ e = n - 1
    OBVIOUS
  <2>5. z \in Int /\ c \in Int /\ d \in Int /\ e \in Int
    BY <1>1, <1>2, <2>4
  <2>6. /\ Min({e, b}) = IF e <= b THEN e ELSE b
        /\ Max({z, c}) = IF z >= c THEN z ELSE c
        /\ Min({e, d}) = IF e <= d THEN e ELSE d
    BY <1>2, <2>5, Pair
  <2>7. CASE IsLong
    <3>1. OpenRange = a .. (IF e <= b THEN e ELSE b)
      BY <2>3, <2>4, <2>6, <2>7
    <3>2. EntriesTouched = {g \in 0 .. e : g \in a .. b}
      BY <1>1, <1>7, <2>4, <2>7
    <3>3. (a .. (IF e <= b THEN e ELSE b)) = {g \in 0 .. e : g \in a .. b}
      BY <1>2, <2>5
    <3> QED BY <1>6, <3>1, <3>2, <3>3
  <2>8. CASE ~IsLong
    <3>1. OpenRange = (IF z >= c THEN z ELSE c) .. (IF e <= d THEN e ELSE d)
      BY <2>3, <2>4, <2>6, <2>8
    <3>2. EntriesTouched = {g \in 0 .. e : g + 1 \in a .. b}
      BY <1>1, <1>7, <2>4, <2>8
    <3>3. ((IF z >= c THEN z ELSE c) .. (IF e <= d THEN e ELSE d)) = {g \in 0 .. e : g + 1 \in a .. b}
      BY <1>1, <1>2, <2>4, <2>5
    <3> QED BY <1>6, <3>1, <3>2, <3>3
  <2> QED BY <2>7, <2>8
<1> QED BY <1>8, <1>9

-----------------------------------------------------------------------------
(* The running totals of the compact engine.                               *)

\* A running total of f over the grids held follows what comes and goes.
LEMMA SumFollows ==
  ASSUME NEW D, NEW E, IsFiniteSet(D), IsFiniteSet(E),
         NEW f, NEW g, \A x \in D : f[x] \in Int, \A x \in E : g[x] \in Int,
         \A x \in D \cap E : f[x] = g[x]
  PROVE  SumFunctionOnSet(g, E) =
           SumFunctionOnSet(f, D) + SumFunctionOnSet(g, E \ D) - SumFunctionOnSet(f, D \ E)
<1> PICK A, O, C : A = D \cap E /\ O = E \ D /\ C = D \ E
  OBVIOUS
<1>1. IsFiniteSet(A) /\ IsFiniteSet(O) /\ IsFiniteSet(C)
  BY FS_Subset, FS_Difference
<1>2. A \cup C = D /\ A \cap C = {} /\ A \cup O = E /\ A \cap O = {}
  OBVIOUS
<1>3. SumFunctionOnSet(f, A) = SumFunctionOnSet(g, A)
  BY <1>1, SumSame
<1>4. SumFunctionOnSet(f, A \cup C) = SumFunctionOnSet(f, A) + SumFunctionOnSet(f, C)
  BY <1>1, <1>2, SumUnion
<1>5. SumFunctionOnSet(g, A \cup O) = SumFunctionOnSet(g, A) + SumFunctionOnSet(g, O)
  BY <1>1, <1>2, SumUnion
<1>6. SumFunctionOnSet(f, A) \in Int /\ SumFunctionOnSet(f, C) \in Int /\ SumFunctionOnSet(g, O) \in Int
  BY <1>1, <1>2, SumInt
<1>7. PICK a, o, c : /\ a = SumFunctionOnSet(f, A) /\ o = SumFunctionOnSet(g, O)
                     /\ c = SumFunctionOnSet(f, C)
  OBVIOUS
<1>8. SumFunctionOnSet(f, D) = a + c /\ SumFunctionOnSet(g, E) = a + o
  BY <1>2, <1>3, <1>4, <1>5, <1>7
<1>9. a + o = (a + c) + o - c
  BY <1>6, <1>7
<1> QED BY <1>7, <1>8, <1>9

\* The running totals are what the open positions add up to.
TotalsAreSums ==
  /\ totalPositionQty = SumFunction(Quantities(positions))
  /\ totalEntryNotional = SumFunction(EntryNotionals(positions))

\* What is held is in quantities and notionals that can be added up.
LEMMA HeldSums ==
  ASSUME Held
  PROVE  /\ IsFiniteSet(DOMAIN positions)
         /\ SumFunction(Quantities(positions)) = SumFunctionOnSet(Quantities(positions), DOMAIN positions)
         /\ SumFunction(EntryNotionals(positions)) =
              SumFunctionOnSet(EntryNotionals(positions), DOMAIN positions)
         /\ \A g \in DOMAIN positions :
              /\ Quantities(positions)[g] = positions[g].quantity
              /\ EntryNotionals(positions)[g] = positions[g].entry * positions[g].quantity
              /\ positions[g].quantity \in Nat /\ positions[g].entry \in Nat
              /\ positions[g].entry * positions[g].quantity \in Nat
<1>1. IsFiniteSet(DOMAIN positions)
  BY GridsFinite, FS_Subset DEF Held
<1>2. ASSUME NEW g \in DOMAIN positions
      PROVE  /\ Quantities(positions)[g] = positions[g].quantity
             /\ EntryNotionals(positions)[g] = positions[g].entry * positions[g].quantity
             /\ positions[g].quantity \in Nat /\ positions[g].entry \in Nat
             /\ positions[g].entry * positions[g].quantity \in Nat
  <2>1. positions[g].quantity \in Nat /\ positions[g].entry \in Nat
    BY DEF Held, PositionType, Amount
  <2>2. positions[g].entry * positions[g].quantity \in Nat
    BY <2>1
  <2> QED BY <2>1, <2>2 DEF Quantities, EntryNotionals
<1> QED BY <1>1, <1>2 DEF SumFunction, Quantities, EntryNotionals

\* The running totals follow what is opened and closed.
LEMMA FollowTotals ==
  ASSUME TotalsAreSums, Held, Held', Follow,
         \A g \in DOMAIN positions \cap DOMAIN positions' : positions'[g] = positions[g]
  PROVE  TotalsAreSums'
<1> PICK p, q, D, E : p = positions /\ q = positions' /\ D = DOMAIN p /\ E = DOMAIN q
  OBVIOUS
<1>1. /\ IsFiniteSet(D)
      /\ totalPositionQty = SumFunctionOnSet(Quantities(p), D)
      /\ totalEntryNotional = SumFunctionOnSet(EntryNotionals(p), D)
      /\ \A g \in D : /\ Quantities(p)[g] = p[g].quantity /\ Quantities(p)[g] \in Int
                      /\ EntryNotionals(p)[g] = p[g].entry * p[g].quantity
                      /\ EntryNotionals(p)[g] \in Int
  BY HeldSums DEF TotalsAreSums
<1>2. IsFiniteSet(E)
  <2>1. E \subseteq Grids' /\ strategy' \in Strategies
    BY DEF Held
  <2>2. strategy'.grids \in Nat
    BY <2>1, StrategiesAssumption DEF StrategyConfig
  <2>3. IsFiniteSet(Grids')
    BY <2>2, FS_Interval DEF Grids
  <2> QED BY <2>1, <2>3, FS_Subset
<1>3. \A g \in E : /\ Quantities(q)[g] = q[g].quantity /\ Quantities(q)[g] \in Int
                   /\ EntryNotionals(q)[g] = q[g].entry * q[g].quantity
                   /\ EntryNotionals(q)[g] \in Int
  <2> SUFFICES ASSUME NEW g \in E
               PROVE  /\ Quantities(q)[g] = q[g].quantity /\ Quantities(q)[g] \in Int
                      /\ EntryNotionals(q)[g] = q[g].entry * q[g].quantity
                      /\ EntryNotionals(q)[g] \in Int
    OBVIOUS
  <2>1. q[g] \in PositionType
    BY DEF Held, PositionType
  <2>2. q[g].quantity \in Int /\ q[g].entry \in Int
    BY <2>1 DEF PositionType, Amount
  <2>3. q[g].entry * q[g].quantity \in Int
    BY <2>2
  <2> QED BY <2>2, <2>3 DEF Quantities, EntryNotionals
<1>4. \A g \in D \cap E : p[g] = q[g]
  OBVIOUS
<1>5. /\ totalPositionQty' = totalPositionQty + SumFunctionOnSet(Quantities(q), E \ D)
                               - SumFunctionOnSet(Quantities(p), D \ E)
      /\ totalEntryNotional' = totalEntryNotional + SumFunctionOnSet(EntryNotionals(q), E \ D)
                               - SumFunctionOnSet(EntryNotionals(p), D \ E)
  BY DEF Follow
<1>6. /\ TotalsAreSums' <=> /\ totalPositionQty' = SumFunctionOnSet(Quantities(q), E)
                            /\ totalEntryNotional' = SumFunctionOnSet(EntryNotionals(q), E)
  BY DEF TotalsAreSums, SumFunction, Quantities, EntryNotionals
<1>7. PICK a, b, c, d : a = Quantities(p) /\ b = Quantities(q) /\ c = EntryNotionals(p) /\ d = EntryNotionals(q)
  OBVIOUS
<1>8. /\ \A g \in D : a[g] \in Int /\ c[g] \in Int
      /\ \A g \in E : b[g] \in Int /\ d[g] \in Int
      /\ \A g \in D \cap E : a[g] = b[g] /\ c[g] = d[g]
  BY <1>1, <1>3, <1>4, <1>7
<1>9. SumFunctionOnSet(b, E) = SumFunctionOnSet(a, D) + SumFunctionOnSet(b, E \ D) - SumFunctionOnSet(a, D \ E)
  BY <1>1, <1>2, <1>8, SumFollows
<1>10. SumFunctionOnSet(d, E) = SumFunctionOnSet(c, D) + SumFunctionOnSet(d, E \ D) - SumFunctionOnSet(c, D \ E)
  BY <1>1, <1>2, <1>8, SumFollows
<1> QED BY <1>1, <1>5, <1>6, <1>7, <1>9, <1>10

\* The totals give the values that the positions give.
LEMMA ValuesAre ==
  ASSUME Held, TotalsAreSums, NEW x \in Amount
  PROVE  UsedNotionalAt(x) = UsedNotional(x) /\ EquityAt(x) = Equity(x)
<1>0. PICK D, q, e : D = DOMAIN positions /\ q = Quantities(positions) /\ e = EntryNotionals(positions)
  OBVIOUS
<1> DEFINE Worth == [g \in D |-> x * q[g]]
           Gain == [g \in D |-> IF IsLong THEN Worth[g] - e[g] ELSE e[g] - Worth[g]]
           Gross == [g \in D |-> GrossOf(positions[g], x)]
<1>1. /\ IsFiniteSet(D) /\ x \in Int /\ Unit \in Int
      /\ totalPositionQty = SumFunctionOnSet(q, D) /\ totalEntryNotional = SumFunctionOnSet(e, D)
      /\ \A g \in D : /\ q[g] = positions[g].quantity /\ e[g] = positions[g].entry * positions[g].quantity
                      /\ positions[g].quantity \in Int /\ positions[g].entry \in Int
                      /\ q[g] \in Int /\ e[g] \in Int
  BY <1>0, HeldSums, UnitAssumption DEF TotalsAreSums, Amount
<1>2. \A g \in D : Worth[g] = x * q[g] /\ Worth[g] \in Int
  <2> SUFFICES ASSUME NEW g \in D PROVE x * q[g] \in Int
    OBVIOUS
  <2>1. q[g] \in Int
    BY <1>1
  <2> QED BY <1>1, <2>1
<1>3. \A g \in D : /\ Gain[g] \in Int
                   /\ IsLong => Gain[g] = Worth[g] - e[g]
                   /\ ~IsLong => Gain[g] = e[g] - Worth[g]
  BY <1>1, <1>2
<1>4. \A g \in D : Gross[g] = Unit * Gain[g]
  <2> SUFFICES ASSUME NEW g \in D PROVE GrossOf(positions[g], x) = Unit * Gain[g]
    OBVIOUS
  <2>1. PICK a, b : a = positions[g].quantity /\ b = positions[g].entry
    OBVIOUS
  <2>2. a \in Int /\ b \in Int
    BY <1>1, <2>1
  <2>3. Gain[g] = IF IsLong THEN x * a - b * a ELSE b * a - x * a
    BY <1>1, <1>2, <1>3, <2>1
  <2>4. Unit * a * (x - b) = Unit * (x * a - b * a) /\ Unit * a * (b - x) = Unit * (b * a - x * a)
    BY <1>1, <2>2
  <2> QED BY <2>1, <2>3, <2>4 DEF GrossOf
<1>5. UsedNotional(x) = SumFunctionOnSet(Worth, D)
  <2>1. [g \in D |-> x * positions[g].quantity] = Worth
    BY <1>1
  <2> QED BY <1>0, <2>1 DEF UsedNotional, SumFunction
<1>6. UnrealizedPnl(x) = SumFunctionOnSet(Gross, D)
  BY <1>0 DEF UnrealizedPnl, SumFunction
<1> HIDE DEF Worth, Gain, Gross
<1>7. SumFunctionOnSet(Worth, D) = x * SumFunctionOnSet(q, D)
  BY <1>1, <1>2, SumTimes
<1>8. SumFunctionOnSet(Gross, D) = Unit * SumFunctionOnSet(Gain, D)
  BY <1>1, <1>3, <1>4, SumTimes
<1>9. SumFunctionOnSet(Gain, D) = UnrealizedAt(x)
  <2>1. CASE IsLong
    <3>1. \A g \in D : Worth[g] \in Int /\ e[g] \in Int /\ Gain[g] = Worth[g] - e[g]
      BY <1>1, <1>2, <1>3, <2>1
    <3>2. SumFunctionOnSet(Gain, D) = SumFunctionOnSet(Worth, D) - SumFunctionOnSet(e, D)
      BY <1>1, <3>1, SumMinus
    <3> QED BY <1>1, <1>7, <2>1, <3>2 DEF UnrealizedAt
  <2>2. CASE ~IsLong
    <3>1. \A g \in D : Worth[g] \in Int /\ e[g] \in Int /\ Gain[g] = e[g] - Worth[g]
      BY <1>1, <1>2, <1>3, <2>2
    <3>2. SumFunctionOnSet(Gain, D) = SumFunctionOnSet(e, D) - SumFunctionOnSet(Worth, D)
      BY <1>1, <3>1, SumMinus
    <3> QED BY <1>1, <1>7, <2>2, <3>2 DEF UnrealizedAt
  <2> QED BY <2>1, <2>2
<1>10. UnrealizedPnl(x) = Unit * UnrealizedAt(x)
  BY <1>6, <1>8, <1>9
<1>11. UsedNotionalAt(x) = UsedNotional(x)
  BY <1>1, <1>5, <1>7 DEF UsedNotionalAt
<1>12. EquityAt(x) = Equity(x)
  <2>1. PICK a, b, c, d : /\ a = Unit * strategy.margin /\ b = state.realized /\ c = state.fees
                          /\ d = UnrealizedPnl(x)
    OBVIOUS
  <2>2. a \in Int /\ b \in Int /\ c \in Int /\ d \in Int
    <3>1. strategy.margin \in Int /\ strategy \in Strategies
      BY StrategyFacts DEF Held, Amount
    <3>2. Unit * strategy.margin \in Int
      BY <1>1, <3>1
    <3> QED BY <2>1, <3>2, ValueType, StateFacts DEF Held
  <2>3. a + b + d - c = a + b - c + d
    BY <2>2
  <2> QED BY <1>10, <2>1, <2>3 DEF EquityAt, Equity
<1> QED BY <1>11, <1>12

\* And of the compact engine.
CompactInv == AccountInv /\ TotalsAreSums

\* What is held before and after a step of the passes is the same position.
LEMMA PositionsStay ==
  ASSUME NEW STATE touched, NEW STATE equity, NEW STATE used,
         \/ StopCarried \/ StopOpened \/ OpenPass(touched) \/ ClosePass(touched)
         \/ Liquidation(equity, used)
  PROVE  \A g \in DOMAIN positions \cap DOMAIN positions' : positions'[g] = positions[g]
<1>1. ASSUME NEW STATE grids, NEW STATE level, NEW STATE rate, NEW STATE reason,
             Close(grids, level, rate, reason)
      PROVE  \A g \in DOMAIN positions \cap DOMAIN positions' : positions'[g] = positions[g]
  BY <1>1 DEF Close
<1>2. ASSUME NEW STATE grids, NEW STATE level, NEW STATE rate, grids \cap DOMAIN positions = {},
             Open(grids, level, rate)
      PROVE  \A g \in DOMAIN positions \cap DOMAIN positions' : positions'[g] = positions[g]
  BY <1>2 DEF Open
<1>3. CASE StopCarried \/ StopOpened
  BY <1>1, <1>3 DEF StopCarried, StopOpened, StopLoss
<1>4. CASE OpenPass(touched)
  <2> PICK filled : filled = (pending \cap touched) \ DOMAIN positions
    OBVIOUS
  <2>1. Open(filled, [g \in filled |-> EntryLevel(g)], strategy.maker)
    BY <1>4 DEF OpenPass
  <2>2. filled \cap DOMAIN positions = {}
    OBVIOUS
  <2> QED BY <1>2, <2>1, <2>2
<1>5. CASE ClosePass(touched)
  BY <1>1, <1>5 DEF ClosePass
<1>6. CASE Liquidation(equity, used)
  BY <1>1, <1>6 DEF Liquidation
<1> QED BY <1>3, <1>4, <1>5, <1>6

\* A step of the compact engine is a step of the engine.
LEMMA CompactStep ==
  ASSUME CompactInv, [CompactNext]_<<vars, totals>>
  PROVE  [Next]_vars
<1>1. Held /\ TotalsAreSums /\ candle \in Candles /\ strategy \in Strategies
  BY TypeHeld DEF CompactInv, AccountInv, Held
<1>2. /\ candle.open \in Amount /\ candle.close \in Amount /\ LiquidationPrice \in Amount
  BY <1>1, CandleFacts DEF LiquidationPrice
<1>3. /\ UsedNotionalAt(candle.open) = UsedNotional(candle.open)
      /\ UsedNotionalAt(candle.close) = UsedNotional(candle.close)
      /\ EquityAt(candle.close) = Equity(candle.close)
      /\ UsedNotionalAt(LiquidationPrice) = UsedNotional(LiquidationPrice)
      /\ EquityAt(LiquidationPrice) = Equity(LiquidationPrice)
  BY <1>1, <1>2, ValuesAre
<1>4. OpenRange = EntriesTouched /\ CloseRange = ExitsTouched
  BY <1>1, TouchedAre
<1> QED BY <1>3, <1>4 DEF CompactNext, Next, vars

\* And keeps the totals right.
LEMMA CompactStepInv ==
  ASSUME CompactInv, [CompactNext]_<<vars, totals>>
  PROVE  CompactInv'
<1>1. AccountInv'
  BY CompactStep, EngineStep DEF CompactInv
<1>2. Held /\ Held' /\ TotalsAreSums
  <2>1. ASSUME TypeOK' PROVE Held'
    BY <2>1 DEF TypeOK, Held, StateType, PositionType
  <2> QED BY <1>1, <2>1, TypeHeld DEF CompactInv, AccountInv
<1>3. TotalsAreSums'
  <2>1. CASE positions' = positions /\ totals' = totals
    BY <1>2, <2>1 DEF totals, TotalsAreSums, Quantities, EntryNotionals
  <2>2. CASE /\ Follow
             /\ \/ StopCarried \/ StopOpened \/ OpenPass(OpenRange) \/ ClosePass(CloseRange)
                \/ Liquidation(EquityAt(LiquidationPrice), UsedNotionalAt(LiquidationPrice))
    <3>1. \A g \in DOMAIN positions \cap DOMAIN positions' : positions'[g] = positions[g]
      BY <2>2, PositionsStay
    <3> QED BY <1>2, <2>2, <3>1, FollowTotals
  <2> QED BY <2>1, <2>2 DEF CompactNext, vars, ScheduledFunding, LateFunding, Orders, Done
<1> QED BY <1>1, <1>3 DEF CompactInv

\* The totals are not negative.
LEMMA TotalsType == ASSUME CompactInv PROVE CompactTypeOK
<1>1. Held
  BY TypeHeld DEF CompactInv, AccountInv
<1>2. SumFunctionOnSet(Quantities(positions), DOMAIN positions) \in Nat
  <2>1. \A g \in DOMAIN positions : Quantities(positions)[g] \in Nat
    BY <1>1, HeldSums
  <2> QED BY <1>1, <2>1, HeldSums, SumNat
<1>3. SumFunctionOnSet(EntryNotionals(positions), DOMAIN positions) \in Nat
  <2>1. \A g \in DOMAIN positions : EntryNotionals(positions)[g] \in Nat
    BY <1>1, HeldSums
  <2> QED BY <1>1, <2>1, HeldSums, SumNat
<1> QED BY <1>1, <1>2, <1>3, HeldSums DEF CompactInv, AccountInv, TotalsAreSums, CompactTypeOK

\* The account of the optimizer's engine, and its running totals: they are what the open positions
\* add up to.
THEOREM CompactAccount == CompactSpec => []CompactInv
<1>1. CompactInit => CompactInv
  BY InitAccount DEF CompactInit, CompactInv, TotalsAreSums
<1>2. CompactInv /\ [CompactNext]_<<vars, totals>> => CompactInv'
  BY CompactStepInv
<1> QED BY <1>1, <1>2, PTL DEF CompactSpec

\* The compact engine is the engine (run_backtest_for_optimization and run_backtest): every run of
\* it is one of run_backtest, with the same positions, money and orders.
THEOREM CompactImplements == CompactSpec => ImplementsGridEngine
<1>1. CompactInit => Init
  BY DEF CompactInit
<1>2. CompactInv /\ [CompactNext]_<<vars, totals>> => [Next]_vars
  BY CompactStep
<1> QED BY <1>1, <1>2, CompactAccount, PTL DEF CompactSpec, Spec, ImplementsGridEngine

\* The types of the compact engine: its totals never get negative.
THEOREM CompactTyped == CompactSpec => []CompactTypeOK
<1>1. CompactInv => CompactTypeOK
  BY TotalsType
<1> QED BY <1>1, CompactAccount, PTL

\* Both engines: what AccountIsSound says of the books, the maintenance margin at the close and the
\* estimate of the worst case.
THEOREM AccountSound == (Spec => []AccountIsSound) /\ (CompactSpec => []AccountIsSound)
<1>1. AccountInv => AccountIsSound
  BY DEF AccountInv, WorstInv, AccountIsSound
<1>2. CompactInv => AccountInv
  BY DEF CompactInv
<1> QED BY <1>1, <1>2, EngineAccount, CompactAccount, PTL

-----------------------------------------------------------------------------
(* The estimates and prechecks of the page: its bisection of the lines.     *)

\* The windows of the bisection, what is before a price, and a window halved.
Windows == (0 .. strategy.grids + 1) \X (0 .. strategy.grids + 1)
Before(price, orAt, i) == Line(i) < price \/ (orAt /\ Line(i) = price)
Middle(w) == (w[1] + w[2]) \div 2
Halved(price, orAt, h, w) ==
  IF w[1] >= w[2] THEN w[1]
  ELSE IF Before(price, orAt, Middle(w)) THEN h[<<Middle(w) + 1, w[2]>>] ELSE h[<<w[1], Middle(w)>>]
\* The recursion of the bisection.
Halving(price, orAt) ==
  CHOOSE h : h = [w \in Windows |-> Halved(price, orAt, h, w)]

\* The bisection of the page, with its two ways to halve a window.
LEMMA BisectedIs ==
  ASSUME NEW price, NEW orAt
  PROVE  Bisected(price, orAt) = Halving(price, orAt)[<<0, strategy.grids + 1>>]
BY DEF Bisected, Halving, Halved, Before, Middle, Windows

\* Both halves of a window are smaller windows.
LEMMA Halves ==
  ASSUME NEW n \in Nat, NEW w \in (0 .. n) \X (0 .. n), w[1] < w[2]
  PROVE  /\ Middle(w) \in 0 .. n /\ w[1] <= Middle(w) /\ Middle(w) < w[2]
         /\ <<Middle(w) + 1, w[2]>> \in (0 .. n) \X (0 .. n)
         /\ <<w[1], Middle(w)>> \in (0 .. n) \X (0 .. n)
<1>1. PICK a, b : a = w[1] /\ b = w[2]
  OBVIOUS
<1>2. a \in 0 .. n /\ b \in 0 .. n /\ a < b
  BY <1>1
<1>3. PICK m : m = (a + b) \div 2
  OBVIOUS
<1>4. m \in Nat /\ a <= m /\ m < b
  BY <1>2, <1>3
<1>5. m \in 0 .. n /\ m + 1 \in 0 .. n
  BY <1>2, <1>4
<1>6. Middle(w) = m
  BY <1>1, <1>3 DEF Middle
<1> QED BY <1>1, <1>2, <1>4, <1>5, <1>6

\* The recursion of the bisection is well founded.
LEMMA HalvingExists ==
  ASSUME strategy \in Strategies, NEW price, NEW orAt
  PROVE  \E h : h = [w \in Windows |-> Halved(price, orAt, h, w)]
<1> PICK n : n = strategy.grids + 1
  OBVIOUS
<1>0. n \in Nat
  BY StrategyFacts
<1> DEFINE S == (0 .. n) \X (0 .. n)
           Small(m) == {w \in S : w[2] - w[1] <= m}
           Good(m, h) == h = [w \in Small(m) |-> Halved(price, orAt, h, w)]
           P == {m \in Nat : \E h : Good(m, h)}
<1>s. Windows = S
  BY DEF Windows
<1>w. \A w \in S : w[1] \in 0 .. n /\ w[2] \in 0 .. n /\ w = <<w[1], w[2]>>
  OBVIOUS
<1>1. 0 \in P
  <2> DEFINE h == [w \in Small(0) |-> w[1]]
  <2>1. \A w \in Small(0) : w[1] >= w[2]
    BY <1>0, <1>w
  <2>2. Good(0, h)
    BY <2>1 DEF Halved
  <2> QED BY <2>2
<1>2. ASSUME NEW k \in Nat, k \in P PROVE k + 1 \in P
  <2> PICK m : m = k + 1
    OBVIOUS
  <2>m. m \in Nat
    OBVIOUS
  <2>1. PICK h : Good(k, h)
    BY <1>2
  <2> DEFINE g == [w \in Small(m) |-> Halved(price, orAt, h, w)]
  <2>2. \A w \in Small(k) : w \in Small(m) /\ g[w] = h[w]
    BY <2>1, <1>0, <1>w, <2>m
  <2>3. ASSUME NEW w \in Small(m), w[1] < w[2]
        PROVE  <<Middle(w) + 1, w[2]>> \in Small(k) /\ <<w[1], Middle(w)>> \in Small(k)
    <3>1. w \in (0 .. n) \X (0 .. n)
      OBVIOUS
    <3>2. PICK c : c = Middle(w)
      OBVIOUS
    <3>3. /\ c \in 0 .. n /\ w[1] <= c /\ c < w[2]
          /\ <<c + 1, w[2]>> \in (0 .. n) \X (0 .. n)
          /\ <<w[1], c>> \in (0 .. n) \X (0 .. n)
      BY <1>0, <2>3, <3>1, <3>2, Halves
    <3>4. w[2] - w[1] <= k + 1 /\ w[1] \in 0 .. n /\ w[2] \in 0 .. n
      BY <1>w
    <3>5. w[2] - (c + 1) <= k /\ c - w[1] <= k
      BY <1>0, <3>3, <3>4
    <3> QED BY <3>2, <3>3, <3>5
  <2>4. \A w \in Small(m) : Halved(price, orAt, h, w) = Halved(price, orAt, g, w)
    <3> SUFFICES ASSUME NEW w \in Small(m)
                 PROVE  Halved(price, orAt, h, w) = Halved(price, orAt, g, w)
      OBVIOUS
    <3>1. CASE w[1] >= w[2]
      BY <3>1 DEF Halved
    <3>2. CASE w[1] < w[2]
      <4>1. /\ g[<<Middle(w) + 1, w[2]>>] = h[<<Middle(w) + 1, w[2]>>]
            /\ g[<<w[1], Middle(w)>>] = h[<<w[1], Middle(w)>>]
        BY <2>2, <2>3, <3>2
      <4> HIDE DEF g
      <4> QED BY <4>1 DEF Halved
    <3> QED BY <3>1, <3>2, <1>w, <1>0
  <2>5. Good(m, g)
    BY <2>4
  <2> HIDE DEF g, Good
  <2> QED BY <2>5, <2>m
<1>3. Nat \subseteq P
  <2> HIDE DEF P
  <2> QED BY <1>1, <1>2, NatInduct
<1>4. Small(n) = S
  BY <1>0, <1>w
<1>5. PICK h : Good(n, h)
  BY <1>0, <1>3
<1> QED BY <1>4, <1>5, <1>s

\* And it is given by its equation.
LEMMA HalvingAt ==
  ASSUME strategy \in Strategies, NEW price, NEW orAt
  PROVE  \A w \in Windows : Halving(price, orAt)[w] = Halved(price, orAt, Halving(price, orAt), w)
<1> DEFINE F(h) == [w \in Windows |-> Halved(price, orAt, h, w)]
<1>1. Halving(price, orAt) = F(Halving(price, orAt))
  BY HalvingExists DEF Halving
<1>2. \A h : \A w \in Windows : F(h)[w] = Halved(price, orAt, h, w)
  OBVIOUS
<1> HIDE DEF F
<1> QED BY <1>1, <1>2

\* The page's bisection finds the lines before a price.
LEMMA BisectedCounts ==
  ASSUME strategy \in Strategies, NEW price \in Nat, NEW orAt \in BOOLEAN
  PROVE  /\ Bisected(price, orAt) \in 0 .. strategy.grids + 1
         /\ \A i \in 0 .. strategy.grids : i < Bisected(price, orAt) <=> Before(price, orAt, i)
<1> PICK n, h, p : n = strategy.grids + 1 /\ h = Halving(price, orAt) /\ p = strategy.grids
  OBVIOUS
<1>0. p \in Nat /\ n \in Nat /\ n = p + 1 /\ Windows = (0 .. n) \X (0 .. n)
  BY StrategyFacts DEF Windows
<1>1. \A w \in Windows : h[w] = Halved(price, orAt, h, w)
  BY HalvingAt
<1>2. \A i \in 0 .. p : Line(i) \in Nat /\ \A j \in 0 .. i : Line(j) \in Nat /\ Line(j) <= Line(i)
  BY <1>0, LinesRise, LineType DEF Amount
<1>3. \A i \in 0 .. p : \A j \in 0 .. i : Before(price, orAt, i) => Before(price, orAt, j)
  <2> SUFFICES ASSUME NEW i \in 0 .. p, NEW j \in 0 .. i, Before(price, orAt, i)
               PROVE  Before(price, orAt, j)
    OBVIOUS
  <2>1. Line(i) \in Nat /\ Line(j) \in Nat /\ Line(j) <= Line(i)
    BY <1>2
  <2> QED BY <2>1 DEF Before
<1> DEFINE Right(w) == /\ h[w] \in 0 .. n
                       /\ \A i \in 0 .. p : i < h[w] <=> Before(price, orAt, i)
           Bounds(w) == /\ w[1] <= w[2]
                        /\ \A i \in 0 .. p : /\ i < w[1] => Before(price, orAt, i)
                                             /\ i >= w[2] => ~Before(price, orAt, i)
           P == {m \in Nat : \A w \in Windows : w[2] - w[1] <= m /\ Bounds(w) => Right(w)}
<1>w. \A w \in Windows : w[1] \in 0 .. n /\ w[2] \in 0 .. n /\ w \in (0 .. n) \X (0 .. n)
  BY <1>0
<1>4. ASSUME NEW w \in Windows, Bounds(w), ~(w[1] < w[2]) PROVE Right(w)
  <2>1. w[1] = w[2]
    BY <1>4, <1>w, <1>0
  <2>2. h[w] = w[1]
    <3>1. w[1] >= w[2]
      BY <2>1, <1>w, <1>0
    <3>2. Halved(price, orAt, h, w) = w[1]
      BY <3>1 DEF Halved
    <3> QED BY <1>1, <3>2
  <2>3. \A i \in 0 .. p : i < w[1] \/ i >= w[2]
    BY <2>1, <1>w, <1>0
  <2>4. \A i \in 0 .. p : ~(i < w[1] /\ i >= w[2])
    BY <2>1, <1>w, <1>0
  <2> QED BY <1>4, <1>w, <2>1, <2>2, <2>3, <2>4
<1>5. 0 \in P
  <2>1. \A w \in Windows : w[2] - w[1] <= 0 => ~(w[1] < w[2])
    BY <1>w, <1>0
  <2> QED BY <1>4, <2>1
<1>6. ASSUME NEW k \in Nat, k \in P PROVE k + 1 \in P
  <2> SUFFICES ASSUME NEW w \in Windows, w[2] - w[1] <= k + 1, Bounds(w), w[1] < w[2]
               PROVE  Right(w)
    BY <1>4
  <2>1. PICK c : c = Middle(w)
    OBVIOUS
  <2>2. PICK u, v : u = <<c + 1, w[2]>> /\ v = <<w[1], c>>
    OBVIOUS
  <2>3. /\ c \in 0 .. n /\ w[1] <= c /\ c < w[2] /\ w[1] \in 0 .. n /\ w[2] \in 0 .. n
        /\ u \in Windows /\ v \in Windows
    BY <1>0, <1>w, <2>1, <2>2, Halves
  <2>4. /\ u[1] = c + 1 /\ u[2] = w[2] /\ v[1] = w[1] /\ v[2] = c
        /\ u[2] - u[1] <= k /\ v[2] - v[1] <= k /\ u[1] <= u[2] /\ v[1] <= v[2]
        /\ c \in 0 .. p
    BY <1>0, <2>2, <2>3
  <2>5. CASE Before(price, orAt, c)
    <3>1. h[w] = h[u]
      BY <1>1, <2>1, <2>2, <2>5, <2>3, <1>0 DEF Halved
    <3>2. \A i \in 0 .. p : i < u[1] => Before(price, orAt, i)
      BY <1>3, <2>4, <2>5, <1>0
    <3>3. \A i \in 0 .. p : i >= u[2] => ~Before(price, orAt, i)
      BY <2>4
    <3>4. Right(u)
      BY <1>6, <2>3, <2>4, <3>2, <3>3
    <3> QED BY <3>1, <3>4
  <2>6. CASE ~Before(price, orAt, c)
    <3>1. h[w] = h[v]
      BY <1>1, <2>1, <2>2, <2>6, <2>3, <1>0 DEF Halved
    <3>2. \A i \in 0 .. p : i >= v[2] => ~Before(price, orAt, i)
      BY <1>3, <2>4, <2>6, <1>0
    <3>3. \A i \in 0 .. p : i < v[1] => Before(price, orAt, i)
      BY <2>4
    <3>4. Right(v)
      BY <1>6, <2>3, <2>4, <3>2, <3>3
    <3> QED BY <3>1, <3>4
  <2> QED BY <2>5, <2>6
<1>7. Nat \subseteq P
  <2> HIDE DEF P
  <2> QED BY <1>5, <1>6, NatInduct
<1>8. PICK w : w = <<0, n>>
  OBVIOUS
<1>9. w \in Windows /\ w[1] = 0 /\ w[2] = n /\ w[2] - w[1] <= n
  BY <1>0, <1>8
<1>10. Bounds(w)
  BY <1>0, <1>9
<1>11. Right(w)
  BY <1>0, <1>7, <1>9, <1>10
<1>12. Bisected(price, orAt) = h[w]
  BY <1>8, BisectedIs
<1> QED BY <1>0, <1>11, <1>12

\* The page begins with the positions that the engine begins with.
LEMMA PageBaseIs ==
  ASSUME strategy \in Strategies, NEW price \in Amount
  PROVE  PageBaseGrids(price) = BaseGrids(price)
<1>a. PICK n, no, yes : n = strategy.grids /\ no = FALSE /\ yes = TRUE
  OBVIOUS
<1>b. PICK b, c : b = Bisected(price, no) /\ c = Bisected(price, yes)
  OBVIOUS
<1>1. n \in Nat /\ n >= 2 /\ Grids = 0 .. n - 1 /\ price \in Nat
  BY <1>a, StrategyFacts DEF Grids, Amount
<1>2. /\ b \in 0 .. n + 1 /\ \A i \in 0 .. n : i < b <=> Line(i) < price
      /\ c \in 0 .. n + 1 /\ \A i \in 0 .. n : i < c <=> Line(i) < price \/ Line(i) = price
  <2>1. no \in BOOLEAN /\ yes \in BOOLEAN
    BY <1>a
  <2>2. /\ b \in 0 .. n + 1 /\ \A i \in 0 .. n : i < b <=> Before(price, no, i)
        /\ c \in 0 .. n + 1 /\ \A i \in 0 .. n : i < c <=> Before(price, yes, i)
    BY <1>a, <1>b, <1>1, <2>1, BisectedCounts
  <2> QED BY <1>a, <2>2 DEF Before
<1>3. \A i \in 0 .. n : Line(i) \in Nat
  BY <1>1, LineType DEF Amount
<1>4. (b .. n - 1) = {g \in Grids : Line(g) >= price}
  <2>1. \A g \in Grids : g \in 0 .. n /\ (g >= b <=> ~(g < b))
    BY <1>1, <1>2
  <2>2. \A g \in Grids : g \in b .. n - 1 <=> Line(g) >= price
    BY <1>1, <1>2, <1>3, <2>1
  <2>3. (b .. n - 1) \subseteq Grids
    BY <1>1, <1>2
  <2> QED BY <2>2, <2>3
<1>5. (0 .. Min({c - 1, n}) - 1) = {g \in Grids : Line(g + 1) <= price}
  <2>1. PICK k : k = c - 1
    OBVIOUS
  <2>2. k \in Int /\ k <= n
    BY <1>1, <1>2, <2>1
  <2>3. Min({k, n}) = k
    <3>1. n \in Int
      BY <1>1
    <3>2. Min({k, n}) = IF k <= n THEN k ELSE n
      BY <2>2, <3>1, Pair
    <3> QED BY <2>2, <3>2
  <2>4. \A g \in Grids : g \in 0 .. k - 1 <=> Line(g + 1) <= price
    <3> SUFFICES ASSUME NEW g \in Grids PROVE g \in 0 .. k - 1 <=> Line(g + 1) <= price
      OBVIOUS
    <3>1. PICK i : i = g + 1
      OBVIOUS
    <3>2. i \in 0 .. n /\ g \in Nat /\ c \in Nat /\ Line(i) \in Nat
      BY <1>1, <1>2, <1>3, <3>1
    <3>3. g \in 0 .. k - 1 <=> i < c
      BY <2>1, <3>1, <3>2
    <3>4. i < c <=> Line(i) <= price
      <4>1. i < c <=> Line(i) < price \/ Line(i) = price
        BY <1>2, <3>2
      <4> QED BY <1>1, <3>2, <4>1
    <3> QED BY <3>1, <3>3, <3>4
  <2>5. (0 .. k - 1) \subseteq Grids
    BY <1>1, <2>2
  <2> QED BY <2>1, <2>3, <2>4, <2>5
<1> QED BY <1>a, <1>b, <1>4, <1>5 DEF PageBaseGrids, BaseGrids

\* Math.round and round() agree on everything but halves.
LEMMA MathRoundIs ==
  ASSUME NEW a \in Nat, NEW b \in Nat, b > 0, (2 * a) % (2 * b) # b
  PROVE  MathRound(a, b) = RoundedQuotient(a, b)
<1>1. PICK q, r : q = a \div b /\ r = a % b
  OBVIOUS
<1>2. q \in Nat /\ r \in Nat /\ r < b /\ a = b * q + r
  BY <1>1, Division
<1>3. b * q \in Nat /\ 2 * a = (2 * b) * q + 2 * r
  BY <1>2
<1>4. PICK d : d = 2 * b
  OBVIOUS
<1>5. d \in Nat /\ d > 0 /\ d * q \in Nat /\ 2 * a = d * q + 2 * r /\ 2 * r < d /\ 2 * r \in Nat
  BY <1>2, <1>3, <1>4
<1>6. (2 * a) % d = 2 * r
  BY <1>2, <1>5
<1>7. 2 * r # b
  BY <1>4, <1>6
<1>8. CASE 2 * r > b
  <2>1. 2 * a + b = d * (q + 1) + (2 * r - b)
    BY <1>2, <1>3, <1>4
  <2>2. 2 * r - b \in Nat /\ 2 * r - b < d /\ q + 1 \in Nat
    BY <1>2, <1>5, <1>8
  <2>3. (2 * a + b) \div d = q + 1
    BY <1>5, <2>1, <2>2
  <2> QED BY <1>1, <1>4, <1>8, <2>3 DEF MathRound, RoundedQuotient
<1>9. CASE ~(2 * r > b)
  <2>1. 2 * a + b = d * q + (2 * r + b)
    BY <1>2, <1>3, <1>4
  <2>2. 2 * r + b \in Nat /\ 2 * r + b < d
    BY <1>2, <1>4, <1>7, <1>9
  <2>3. (2 * a + b) \div d = q
    BY <1>2, <1>5, <2>1, <2>2
  <2> QED BY <1>1, <1>4, <1>7, <1>9, <2>3 DEF MathRound, RoundedQuotient
<1> QED BY <1>8, <1>9

\* So the page's prices are the engine's where no price is at half a tick.
LEMMA ToTickIs ==
  ASSUME strategy \in Strategies, NEW parts \in Nat, ~HalfTick(parts)
  PROVE  ToTick(parts) = RoundToStep(parts)
<1>1. PICK u : u = Unit * strategy.tick
  OBVIOUS
<1>2. u \in Nat /\ u > 0 /\ 2 * Unit * strategy.tick = 2 * u
  <2>1. Unit \in Nat /\ Unit > 0 /\ strategy.tick \in Nat /\ strategy.tick > 0
    BY StrategyFacts DEF Amount
  <2> QED BY <1>1, <2>1
<1>3. (2 * parts) % (2 * u) # u
  BY <1>1, <1>2 DEF HalfTick
<1>4. MathRound(parts, u) = RoundedQuotient(parts, u)
  BY <1>2, <1>3, MathRoundIs
<1> QED BY <1>1, <1>4 DEF ToTick, RoundToStep

\* The prices of the estimate, and what the two make of them.
LEMMA PricesAgree ==
  ASSUME strategy \in Strategies, NEW price \in Amount, RoundsAlike(price)
  PROVE  /\ \A l \in {price, strategy.stop} \cup {EntryLevel(g) : g \in Grids} :
              /\ ToTick(l * (Unit + strategy.slippage)) = RoundToStep(l * (Unit + strategy.slippage))
              /\ ToTick(l * (Unit - strategy.slippage)) = RoundToStep(l * (Unit - strategy.slippage))
<1> PICK f, h : f = Unit + strategy.slippage /\ h = Unit - strategy.slippage
  OBVIOUS
<1>1. f \in Nat /\ h \in Nat
  BY StrategyFacts DEF Amount
<1> DEFINE levels == {price, strategy.stop} \cup {Line(i) : i \in 0 .. strategy.grids}
<1>2. \A l \in levels : ~HalfTick(l * f) /\ ~HalfTick(l * h)
  BY DEF RoundsAlike
<1>3. \A g \in Grids : EntryLevel(g) \in levels
  <2> SUFFICES ASSUME NEW g \in Grids PROVE EntryLevel(g) \in levels
    OBVIOUS
  <2>1. g \in 0 .. strategy.grids /\ g + 1 \in 0 .. strategy.grids
    BY StrategyFacts DEF Grids
  <2> QED BY <2>1 DEF EntryLevel
<1>4. \A l \in levels : l \in Nat
  <2>1. price \in Nat /\ strategy.stop \in Nat
    BY StrategyFacts DEF Amount
  <2>2. \A i \in 0 .. strategy.grids : Line(i) \in Nat
    BY LineType DEF Amount
  <2> QED BY <2>1, <2>2
<1> HIDE DEF levels
<1>5. \A l \in levels : ToTick(l * f) = RoundToStep(l * f) /\ ToTick(l * h) = RoundToStep(l * h)
  <2> SUFFICES ASSUME NEW l \in levels
               PROVE  ToTick(l * f) = RoundToStep(l * f) /\ ToTick(l * h) = RoundToStep(l * h)
    OBVIOUS
  <2>1. l * f \in Nat /\ l * h \in Nat
    BY <1>1, <1>4
  <2> QED BY <1>2, <2>1, ToTickIs
<1>6. {price, strategy.stop} \subseteq levels
  BY DEF levels
<1> QED BY <1>3, <1>5, <1>6

\* The legs of the page are the legs of the service.
LEMMA PageLegsAre ==
  ASSUME strategy \in Strategies, NEW price \in Amount, RoundsAlike(price)
  PROVE  PageLegs(price) = WorstCaseLegs(price)
<1> DEFINE base == BaseGrids(price)
           orders == {g \in Grids \ base :
                        IF IsLong THEN EntryLevel(g) < price ELSE EntryLevel(g) > price}
           level == [g \in base \cup orders |-> IF g \in base THEN price ELSE EntryLevel(g)]
           Entry(g) == ToTick((IF g \in base THEN price ELSE EntryLevel(g)) *
                              (IF IsLong THEN Unit + strategy.slippage ELSE Unit - strategy.slippage))
           rate == [g \in Grids |-> IF g \in base THEN strategy.taker ELSE strategy.maker]
<1>1. AssumedInitial(price) = price
  BY DEF AssumedInitial, NoPrice, Amount
<1>2. PageLegs(price) =
        [g \in {h \in base \cup orders : Accepted(Entry(h))} |->
          [entry |-> Entry(g), quantity |-> Quantity(Entry(g)),
           fee |-> Entry(g) * Quantity(Entry(g)) * rate[g]]]
  BY <1>1, PageBaseIs DEF PageLegs
<1>3. WorstCaseLegs(price) =
        [g \in {h \in base \cup orders : Accepted(EntryPrice(level[h]))} |->
          Position(level[g], IF g \in base THEN strategy.taker ELSE strategy.maker)]
  BY DEF WorstCaseLegs
<1>4. base \cup orders \subseteq Grids
  BY DEF BaseGrids
<1>5. \A g \in base \cup orders : level[g] = IF g \in base THEN price ELSE EntryLevel(g)
  OBVIOUS
<1>6. \A g \in base \cup orders : Entry(g) = EntryPrice(level[g])
  BY <1>4, <1>5, PricesAgree DEF EntryPrice
<1>7. \A g \in base \cup orders : rate[g] = IF g \in base THEN strategy.taker ELSE strategy.maker
  BY <1>4
<1> HIDE DEF base, orders, level, Entry, rate
<1>8. \A g \in base \cup orders :
        [entry |-> Entry(g), quantity |-> Quantity(Entry(g)),
         fee |-> Entry(g) * Quantity(Entry(g)) * rate[g]]
          = Position(level[g], IF g \in base THEN strategy.taker ELSE strategy.maker)
  BY <1>6, <1>7 DEF Position
<1> QED BY <1>2, <1>3, <1>6, <1>8

\* The legs of the worst case are positions.
LEMMA LegsTyped ==
  ASSUME strategy \in Strategies, NEW price \in Amount, NEW legs, legs = WorstCaseLegs(price)
  PROVE  /\ DOMAIN legs \subseteq Grids /\ IsFiniteSet(DOMAIN legs)
         /\ \A g \in DOMAIN legs : legs[g] \in PositionType
<1>1. DOMAIN legs \subseteq Grids
  BY LegFacts
<1>2. IsFiniteSet(DOMAIN legs)
  BY <1>1, GridsFinite, FS_Subset
<1>3. strategy.taker \in Nat /\ strategy.maker \in Nat
  BY StrategyFacts
<1>4. ASSUME NEW g \in DOMAIN legs PROVE legs[g] \in PositionType
  <2>1. CASE g \in BaseGrids(price)
    <3>1. Accepted(EntryPrice(price)) /\ legs[g] = Position(price, strategy.taker)
      BY <2>1, LegFacts
    <3> QED BY <1>3, <3>1, PositionTyped
  <2>2. CASE g \notin BaseGrids(price)
    <3>1. g \in Grids
      BY <1>1
    <3>2. /\ Accepted(EntryPrice(EntryLevel(g)))
          /\ legs[g] = Position(EntryLevel(g), strategy.maker)
      BY <2>2, <3>1, LegFacts
    <3> QED BY <1>3, <3>1, <3>2, LevelType, PositionTyped
  <2> QED BY <2>1, <2>2
<1> QED BY <1>1, <1>2, <1>4

\* The page's loss at the stop is the service's.
LEMMA PageLossIs ==
  ASSUME strategy \in Strategies, NEW price \in Amount, RoundsAlike(price)
  PROVE  PageLoss(price) = MaxPossibleLoss(price)
<1>1. PICK legs, x : legs = WorstCaseLegs(price) /\ x = ExitPrice(strategy.stop)
  OBVIOUS
<1>2. /\ IsFiniteSet(DOMAIN legs)
      /\ \A g \in DOMAIN legs : legs[g] \in PositionType
  BY <1>1, LegsTyped
<1>3. x \in Amount /\ strategy.taker \in Int
  BY <1>1, StrategyFacts, PriceType
<1> DEFINE net == [g \in DOMAIN legs |->
                     GrossOf(legs[g], x) - legs[g].fee - x * legs[g].quantity * strategy.taker]
           loss == [g \in DOMAIN legs |->
                     legs[g].fee + x * legs[g].quantity * strategy.taker - GrossOf(legs[g], x)]
<1>4. \A g \in DOMAIN legs : net[g] \in Int /\ loss[g] \in Int /\ loss[g] = -net[g]
  <2> SUFFICES ASSUME NEW g \in DOMAIN legs
               PROVE  net[g] \in Int /\ loss[g] \in Int /\ loss[g] = -net[g]
    OBVIOUS
  <2>1. PICK a, b, c : a = GrossOf(legs[g], x) /\ b = legs[g].fee
                       /\ c = x * legs[g].quantity * strategy.taker
    OBVIOUS
  <2>2. a \in Int /\ b \in Int /\ c \in Int
    <3>1. a \in Int
      BY <1>2, <1>3, <2>1, GrossType
    <3>2. b \in Int /\ legs[g].quantity \in Int /\ x \in Int
      BY <1>2, <1>3, <2>1 DEF PositionType, Amount
    <3>3. x * legs[g].quantity \in Int
      BY <3>2
    <3> QED BY <1>3, <2>1, <3>1, <3>2, <3>3
  <2>3. net[g] = a - b - c /\ loss[g] = b + c - a
    BY <2>1
  <2> QED BY <2>2, <2>3
<1>5. MaxPossibleLoss(price) = Max({0, SumFunctionOnSet(loss, DOMAIN legs)})
  BY <1>1 DEF MaxPossibleLoss, SumFunction
<1>6. PageLoss(price) = Max({0, -SumFunctionOnSet(net, DOMAIN legs)})
  <2>1. PageLegs(price) = legs
    BY <1>1, PageLegsAre
  <2>2. PICK p : p = ToTick(strategy.stop * (IF IsLong THEN Unit - strategy.slippage
                                                       ELSE Unit + strategy.slippage))
    OBVIOUS
  <2>3. (IF p > 0 THEN p ELSE strategy.stop) = x
    BY <1>1, <2>2, PricesAgree DEF ExitPrice
  <2>4. PageLoss(price) =
          LET exit == IF p > 0 THEN p ELSE strategy.stop
              n == [g \in DOMAIN legs |->
                     GrossOf(legs[g], exit) - legs[g].fee - exit * legs[g].quantity * strategy.taker]
          IN Max({0, -SumFunction(n)})
    BY <2>1, <2>2 DEF PageLoss
  <2> QED BY <2>3, <2>4 DEF SumFunction
<1> HIDE DEF net, loss
<1>7. SumFunctionOnSet(loss, DOMAIN legs) = -SumFunctionOnSet(net, DOMAIN legs)
  BY <1>2, <1>4, SumNegate
<1> QED BY <1>5, <1>6, <1>7

\* What GuardsAgree says, of a strategy and a first close.
LEMMA GuardsAgreeAlways ==
  ASSUME strategy \in Strategies, history.first \in Amount
  PROVE  GuardsAgree
<1> SUFFICES ASSUME RoundsAlike(history.first), NEW limit \in Limits \ {0}, NEW forced \in BOOLEAN
             PROVE  Refused(history.first, TRUE, limit)
                      <=> BacktestErrors(history.first, TRUE, limit, forced) # {}
  BY DEF GuardsAgree
<1>1. PICK price : price = history.first
  OBVIOUS
<1>2. /\ PageLegs(price) = WorstCaseLegs(price)
      /\ PageLoss(price) = MaxPossibleLoss(price)
      /\ price # NoPrice /\ limit # 0
  BY <1>1, PageLegsAre, PageLossIs DEF NoPrice, Amount
<1>3. PICK liquidation : liquidation = LiquidationOf(WorstCaseLegs(price))
  OBVIOUS
<1>4. Refused(price, TRUE, limit) <=>
        \/ liquidation # NoQuotient /\ ~StopIsBetween(liquidation)
        \/ MaxPossibleLoss(price) > limit
  BY <1>2, <1>3 DEF Refused, ViolatesStopGuard, ViolatesLossLimit
<1>5. BacktestErrors(price, TRUE, limit, forced) =
        (IF liquidation # NoQuotient /\ ~StopIsBetween(liquidation) THEN {"liquidation"} ELSE {})
          \cup {} \cup (IF MaxPossibleLoss(price) > limit THEN {"loss"} ELSE {})
  BY <1>2, <1>3 DEF BacktestErrors, PrecheckErrors
<1> QED BY <1>1, <1>4, <1>5

\* A forced limit holds whatever else is wrong.
LEMMA LimitAlwaysKept == LimitIsKept
<1> SUFFICES ASSUME NEW limit \in Limits, NEW strict \in BOOLEAN, NEW sweep \in Sweeps,
                    limit = 0 \/ PageLoss(history.first) > limit
             PROVE  /\ BacktestErrors(history.first, strict, limit, TRUE) # {}
                    /\ OptimizationErrors(history.first, strict, limit, TRUE, sweep, sweep, "grid", 1, TRUE) # {}
  BY DEF LimitIsKept
<1>1. \A liquidation : PrecheckErrors(history.first, liquidation, strict, limit, TRUE) # {}
  BY DEF PrecheckErrors
<1> QED BY <1>1 DEF BacktestErrors, OptimizationErrors

\* A function has no more values than arguments.
LEMMA Values ==
  ASSUME NEW S, IsFiniteSet(S), NEW f
  PROVE  LET T == {f[x] : x \in S} IN IsFiniteSet(T) /\ Cardinality(T) <= Cardinality(S)
<1> DEFINE T == {f[x] : x \in S}
           g == [x \in S |-> f[x]]
<1>1. g \in Surjection(S, T)
  BY DEF Surjection
<1> HIDE DEF g, T
<1>2. IsFiniteSet(T) /\ Cardinality(T) <= Cardinality(S)
  BY <1>1, FS_Surjection
<1> QED BY <1>2 DEF T

\* The quotients of a division.
LEMMA QuotientsRise ==
  ASSUME NEW c \in Nat, NEW e \in Nat, c <= e, NEW d \in Nat, d > 0, NEW z, z = c % d, z = 0
  PROVE  /\ c \div d \in 0 .. e \div d
         /\ c = d * (c \div d)
<1>1. c \div d \in Nat /\ c = d * (c \div d) + z
  BY Division
<1>2. e \div d \in Nat /\ e % d \in Nat /\ e = d * (e \div d) + (e % d) /\ e % d < d
  BY Division
<1>3. PICK k, n, r : k = c \div d /\ n = e \div d /\ r = e % d
  OBVIOUS
<1>4. PICK x, y : x = d * k /\ y = d * n
  OBVIOUS
<1>5. k \in Nat /\ n \in Nat /\ r \in Nat /\ r < d
  BY <1>1, <1>2, <1>3
<1>6. x \in Nat /\ y \in Nat
  BY <1>4, <1>5
<1>7. c = x
  <2>1. c = x + z
    BY <1>1, <1>3, <1>4
  <2> QED BY <1>6, <2>1
<1>8. e = y + r
  BY <1>2, <1>3, <1>4
<1>9. k <= n
  <2> SUFFICES ASSUME k > n PROVE FALSE
    BY <1>5
  <2>1. PICK j : j = n + 1
    OBVIOUS
  <2>2. j \in Nat /\ j <= k
    BY <1>5, <2>1
  <2>3. d * j <= d * k
    BY <1>5, <2>2, Products
  <2>4. d * j = y + d
    <3>1. d * (n + 1) = d * n + d
      BY <1>5
    <3> QED BY <1>4, <2>1, <3>1
  <2>5. y + d <= x
    BY <1>4, <2>3, <2>4
  <2> QED BY <1>5, <1>6, <1>7, <1>8, <2>5
<1>10. k \in 0 .. n
  BY <1>5, <1>9
<1> QED BY <1>3, <1>4, <1>7, <1>10

\* How many values a range has that begins at a number, in steps.
LEMMA StepsCounted ==
  ASSUME NEW a \in Nat, NEW b \in Nat, a <= b, NEW d \in Nat, d > 0,
         NEW T, T = {v \in a .. b : (v - a) % d = 0}
  PROVE  Cardinality(T) \in Nat /\ Cardinality(T) <= (b - a) \div d + 1
<1>1. PICK n : n = (b - a) \div d
  OBVIOUS
<1>2. n \in Nat /\ b - a \in Nat
  BY <1>1
<1> DEFINE f == [k \in 0 .. n |-> a + d * k]
           V == {f[k] : k \in 0 .. n}
<1>3. T \subseteq V
  <2> SUFFICES ASSUME NEW v \in T PROVE v \in V
    OBVIOUS
  <2>1. v - a \in Nat /\ v - a <= b - a /\ (v - a) % d = 0 /\ v \in Nat
    OBVIOUS
  <2>2. PICK c, e : c = v - a /\ e = b - a
    OBVIOUS
  <2>3. c \in Nat /\ e \in Nat /\ c <= e /\ c % d = 0 /\ d > 0
    BY <2>1, <2>2
  <2>4. c \div d \in 0 .. e \div d /\ c = d * (c \div d)
    BY <2>3, QuotientsRise
  <2>5. PICK k : k = c \div d
    OBVIOUS
  <2>6. k \in 0 .. n /\ v = a + d * k
    BY <1>1, <2>1, <2>2, <2>4, <2>5
  <2>7. f[k] = v
    BY <2>6
  <2> QED BY <2>6, <2>7
<1>4. IsFiniteSet(0 .. n) /\ Cardinality(0 .. n) = n + 1
  <2>1. PICK z : z = 0
    OBVIOUS
  <2>2. z \in Int /\ n \in Int /\ z <= n
    BY <1>2, <2>1
  <2>3. IsFiniteSet(z .. n) /\ Cardinality(z .. n) = IF z > n THEN 0 ELSE n - z + 1
    BY <2>2, FS_Interval
  <2> QED BY <1>2, <2>1, <2>3
<1> HIDE DEF f
<1>5. IsFiniteSet(V) /\ Cardinality(V) <= n + 1
  BY <1>4, Values
<1> HIDE DEF V
<1>6. IsFiniteSet(T) /\ Cardinality(T) <= Cardinality(V)
  BY <1>3, <1>5, FS_Subset
<1>7. Cardinality(T) \in Nat /\ Cardinality(V) \in Nat
  BY <1>5, <1>6, FS_CardinalityType
<1> QED BY <1>1, <1>2, <1>5, <1>6, <1>7

\* The values that the service makes of a range.
Made(sweep) == IF sweep.enabled THEN Cardinality(ExpandedSweep(sweep)) ELSE 1

\* The count of the page covers them, and is 0 for what the schema refuses.
LEMMA SweepCounted ==
  ASSUME NEW s \in Sweeps
  PROVE  /\ SweepCount(s) \in Nat
         /\ SweepCount(s) = 0 <=> ~ValidSweep(s)
         /\ ValidSweep(s) => Made(s) \in Nat /\ Made(s) <= SweepCount(s)
<1>1. PICK n \in Nat : DOMAIN s.values = 1 .. n
  <2>1. s.values \in Seq(Nat)
    BY SweepsAssumption
  <2>2. Len(s.values) \in Nat /\ DOMAIN s.values = 1 .. Len(s.values)
    BY <2>1
  <2> QED BY <2>2
<1>2. s.start \in Nat /\ s.end \in Nat /\ s.step \in Nat /\ s.enabled \in BOOLEAN
  BY SweepsAssumption
<1>3. CASE ~s.enabled
  BY <1>3 DEF SweepCount, ValidSweep, Made
<1>4. CASE s.enabled /\ DOMAIN s.values # {}
  <2>1. IsFiniteSet(1 .. n) /\ Cardinality(1 .. n) \in Nat
    <3>1. PICK o : o = 1
      OBVIOUS
    <3>2. o \in Int /\ n \in Int
      BY <3>1
    <3>3. IsFiniteSet(o .. n)
      BY <3>2, FS_Interval
    <3> QED BY <3>1, <3>3, FS_CardinalityType
  <2>2. PICK D : D = DOMAIN s.values
    OBVIOUS
  <2>3. IsFiniteSet(D) /\ Cardinality(D) \in Nat /\ D # {}
    BY <1>1, <1>4, <2>1, <2>2
  <2>4. Cardinality(D) # 0
    BY <2>3, FS_EmptySet
  <2>5. SweepCount(s) = Cardinality(D) /\ ValidSweep(s) /\ Made(s) = Cardinality({s.values[x] : x \in D})
    BY <1>4, <2>2 DEF SweepCount, ValidSweep, Made, ExpandedSweep, Range
  <2>6. PICK T : T = {s.values[x] : x \in D}
    OBVIOUS
  <2>7. IsFiniteSet(T) /\ Cardinality(T) <= Cardinality(D)
    BY <2>3, <2>6, Values
  <2>8. Cardinality(T) \in Nat
    BY <2>7, FS_CardinalityType
  <2> QED BY <2>3, <2>4, <2>5, <2>6, <2>7, <2>8
<1>5. CASE s.enabled /\ DOMAIN s.values = {}
  <2>1. ValidSweep(s) <=> s.start > 0 /\ s.step > 0 /\ s.end >= s.start
    BY <1>5 DEF ValidSweep
  <2>2. CASE s.start = 0 \/ s.step = 0 \/ s.end < s.start
    <3>1. SweepCount(s) = 0
      BY <1>5, <2>2 DEF SweepCount
    <3> QED BY <1>2, <2>1, <2>2, <3>1
  <2>3. CASE ~(s.start = 0 \/ s.step = 0 \/ s.end < s.start)
    <3>1. SweepCount(s) = (s.end - s.start) \div s.step + 1
      BY <1>5, <2>3 DEF SweepCount
    <3>2. PICK a, b, d : a = s.start /\ b = s.end /\ d = s.step
      OBVIOUS
    <3>3. a \in Nat /\ b \in Nat /\ d \in Nat /\ a <= b /\ d > 0 /\ a > 0
      BY <1>2, <2>3, <3>2
    <3>4. (b - a) \div d \in Nat
      <4>1. b - a \in Nat
        BY <3>3
      <4> QED BY <3>3, <4>1, Division
    <3>5. PICK T : T = {v \in a .. b : (v - a) % d = 0}
      OBVIOUS
    <3>6. Cardinality(T) \in Nat /\ Cardinality(T) <= (b - a) \div d + 1
      BY <3>3, <3>5, StepsCounted
    <3>7. Made(s) = Cardinality(T)
      BY <1>5, <3>2, <3>5 DEF Made, ExpandedSweep
    <3>8. ValidSweep(s)
      BY <2>1, <3>2, <3>3
    <3>9. PICK k : k = (b - a) \div d
      OBVIOUS
    <3>10. SweepCount(s) = k + 1 /\ k \in Nat
      BY <3>1, <3>2, <3>4, <3>9
    <3> QED BY <3>6, <3>7, <3>8, <3>9, <3>10
  <2> QED BY <2>2, <2>3
<1> QED BY <1>2, <1>3, <1>4, <1>5

\* The spaces of a search.
LEMMA SpacesAlwaysAgree == SpacesAgree
<1> SUFFICES ASSUME NEW s \in Sweeps, NEW t \in Sweeps
             PROVE  /\ SpaceSize(s, t) = 0 <=> ~(ValidSweep(s) /\ ValidSweep(t))
                    /\ ValidSweep(s) /\ ValidSweep(t) => SpaceSize(s, t) >= Made(s) * Made(t)
  BY DEF SpacesAgree, Made
<1>1. PICK x, y : x = SweepCount(s) /\ y = SweepCount(t)
  OBVIOUS
<1>2. /\ x \in Nat /\ y \in Nat /\ SpaceSize(s, t) = x * y
      /\ x = 0 <=> ~ValidSweep(s)
      /\ y = 0 <=> ~ValidSweep(t)
  BY <1>1, SweepCounted DEF SpaceSize
<1>3. x * y = 0 <=> x = 0 \/ y = 0
  BY <1>2
<1>4. ASSUME ValidSweep(s), ValidSweep(t) PROVE x * y >= Made(s) * Made(t)
  <2>1. PICK a, b : a = Made(s) /\ b = Made(t)
    OBVIOUS
  <2>2. a \in Nat /\ b \in Nat /\ a <= x /\ b <= y
    BY <1>1, <1>4, <2>1, SweepCounted
  <2>3. b * a <= b * x /\ x * b <= x * y /\ x * b = b * x /\ b * a = a * b
        /\ b * a \in Nat /\ b * x \in Nat /\ x * y \in Nat
    BY <1>2, <2>2, Products
  <2> QED BY <2>1, <2>3
<1> QED BY <1>2, <1>3, <1>4

-----------------------------------------------------------------------------
(* The marks on the chart.                                                 *)

\* Before each number of a set come fewer than all of them.
LEMMA FewerBefore ==
  ASSUME NEW D, IsFiniteSet(D), D \subseteq Nat, NEW g \in D
  PROVE  Cardinality({h \in D : h < g}) < Cardinality(D)
<1>1. PICK T : T = {h \in D : h < g}
  OBVIOUS
<1>2. T \in SUBSET D /\ T # D
  BY <1>1
<1>3. IsFiniteSet(T) /\ Cardinality(T) <= Cardinality(D) /\ Cardinality(D) # Cardinality(T)
  BY <1>2, FS_Subset
<1>4. Cardinality(T) \in Nat /\ Cardinality(D) \in Nat
  BY <1>3, FS_CardinalityType
<1> QED BY <1>1, <1>3, <1>4

\* What a run holds when its first candle begins: all of the base position, or nothing.
BeganWith ==
  AtStart => DOMAIN positions = {g \in BaseGrids(history.first) : Accepted(EntryPrice(history.first))}

\* Nothing before the end of the first candle is the start again.
LEMMA BeganKept ==
  ASSUME TypeOK, BeganWith, \/ phase' # "funding"
                            \/ index' = index + 1
                            \/ UNCHANGED vars
  PROVE  BeganWith'
<1>1. CASE phase' # "funding" \/ index' = index + 1
  <2>1. index \in Nat /\ index >= 1
    <3>1. index \in 1 .. MaxCandles
      BY DEF TypeOK
    <3>2. MaxCandles \in Int
      BY UnitAssumption
    <3> QED BY <3>1, <3>2
  <2>2. ~AtStart'
    BY <1>1, <2>1 DEF AtStart
  <2> QED BY <2>2 DEF BeganWith
<1>2. CASE UNCHANGED vars
  <2>1. strategy' = strategy /\ history' = history /\ positions' = positions /\ (AtStart' <=> AtStart)
    BY <1>2 DEF vars, AtStart
  <2>2. PICK price : price = history.first
    OBVIOUS
  <2>3. Accepted(EntryPrice(price))' <=> Accepted(EntryPrice(price))
    BY <2>1 DEF Accepted, EntryPrice, RoundToStep, Quantity, Stake, IsLong
  <2>4. Accepted(EntryPrice(history.first))' <=> Accepted(EntryPrice(price))'
    BY <2>1, <2>2 DEF Accepted, EntryPrice, RoundToStep, Quantity, Stake, IsLong
  <2>5. BaseGrids(history.first)' = BaseGrids(history.first)
    BY <2>1, SameLegs
  <2> QED BY <2>1, <2>2, <2>3, <2>4, <2>5 DEF BeganWith
<1> QED BY <1>1, <1>2

\* The marks of the base position are what it opened, and every first order has one.
LEMMA MarkersAlwaysRight ==
  ASSUME TypeOK, OrdersApart, BeganWith
  PROVE  MarkersAreRight
<1> SUFFICES ASSUME AtStart, strategy.base
             PROVE  LET markers == InitialMarkers(history.first, Cardinality(DOMAIN positions)) IN
                    markers.base = DOMAIN positions /\ pending \subseteq markers.pending
  BY DEF MarkersAreRight
<1>1. PICK price, D, H : /\ price = history.first /\ D = BaseGrids(price) /\ H = DOMAIN positions
  OBVIOUS
<1>2. strategy \in Strategies /\ price \in Amount
  BY <1>1 DEF TypeOK
<1>3. D \in SUBSET Grids /\ IsFiniteSet(D) /\ D \subseteq Nat
  <2>1. D \in SUBSET Grids
    BY <1>1 DEF BaseGrids
  <2>2. IsFiniteSet(D)
    BY <1>2, <2>1, GridsFinite, FS_Subset
  <2>3. Grids \subseteq Nat
    BY <1>2, StrategyFacts DEF Grids
  <2> QED BY <2>1, <2>2, <2>3
<1>4. H = D \/ H = {}
  BY <1>1 DEF BeganWith
<1>5. PICK base : base = {g \in D : Cardinality({h \in D : h < g}) < Cardinality(H)}
  OBVIOUS
<1>6. base = H
  <2>1. CASE H = D
    <3>1. \A g \in D : Cardinality({h \in D : h < g}) < Cardinality(D)
      BY <1>3, FewerBefore
    <3> QED BY <1>5, <2>1, <3>1
  <2>2. CASE H = {}
    <3>1. PICK n : n = Cardinality(H)
      OBVIOUS
    <3>2. n = 0
      BY <2>2, <3>1, FS_EmptySet
    <3>3. \A g \in D : ~(Cardinality({h \in D : h < g}) < n)
      <4> SUFFICES ASSUME NEW g \in D PROVE ~(Cardinality({h \in D : h < g}) < n)
        OBVIOUS
      <4>1. PICK T : T = {h \in D : h < g}
        OBVIOUS
      <4>2. T \in SUBSET D
        BY <4>1
      <4>3. IsFiniteSet(T)
        BY <1>3, <4>2, FS_Subset
      <4>4. Cardinality(T) \in Nat
        BY <4>3, FS_CardinalityType
      <4> QED BY <3>2, <4>1, <4>4
    <3> QED BY <1>5, <2>2, <3>1, <3>3
  <2> QED BY <1>4, <2>1, <2>2
<1>7. InitialMarkers(price, Cardinality(H)) = [base |-> base, pending |-> Grids \ base]
  <2>1. PageBaseGrids(price) = D
    BY <1>1, <1>2, PageBaseIs
  <2> QED BY <1>5, <2>1 DEF InitialMarkers
<1>8. pending \subseteq Grids \ H
  BY <1>1 DEF TypeOK, OrdersApart
<1> QED BY <1>1, <1>6, <1>7, <1>8

-----------------------------------------------------------------------------
(* The liquidation of a long grid.                                         *)

\* A long grid's order for a level above its stop is not filled below the stop.
LEMMA EntryAboveStop ==
  ASSUME strategy \in Strategies, IsLong, strategy.stop % strategy.tick = 0,
         NEW level \in Amount, level > strategy.stop
  PROVE  EntryPrice(level) >= strategy.stop
<1>1. PICK U, t, x, s : U = Unit /\ t = strategy.tick /\ x = strategy.stop /\ s = strategy.slippage
  OBVIOUS
<1>2. /\ U \in Nat /\ U > 0 /\ t \in Nat /\ t > 0 /\ x \in Nat /\ s \in Nat
      /\ level \in Nat /\ x <= level
  BY <1>1, StrategyFacts DEF Amount
<1>3. PICK k \in Nat : x = t * k
  <2>1. PICK k, z : k = x \div t /\ z = x % t
    OBVIOUS
  <2>2. k \in Nat /\ x = t * k + z
    BY <1>2, <2>1, Division
  <2>3. z = 0 /\ t * k \in Nat
    BY <1>1, <1>2, <2>1, <2>2
  <2> QED BY <2>2, <2>3
<1>4. PICK a, b, r : a = x * U /\ b = U * t /\ r = RoundedQuotient(a, b)
  OBVIOUS
<1>5. a \in Nat /\ b \in Nat /\ b > 0 /\ a = b * k
  BY <1>2, <1>3, <1>4
<1>6. r \in Nat /\ 2 * a - b <= 2 * (b * r) /\ 2 * (b * r) <= 2 * a + b
  BY <1>4, <1>5, RQ1
<1>7. r >= k
  <2> SUFFICES ASSUME r < k PROVE FALSE
    BY <1>3, <1>6
  <2>1. PICK j : j = r + 1
    OBVIOUS
  <2>2. j \in Nat /\ j <= k
    BY <1>3, <1>6, <2>1
  <2>3. b * j <= b * k
    BY <1>3, <1>5, <2>2, Products
  <2>4. PICK y : y = b * r
    OBVIOUS
  <2>5. y \in Nat
    BY <1>5, <1>6, <2>4
  <2>6. b * j = y + b
    <3>1. b * (r + 1) = b * r + b
      BY <1>5, <1>6
    <3> QED BY <2>1, <2>4, <3>1
  <2>7. y + b <= a /\ 2 * a - b <= 2 * y
    BY <1>5, <1>6, <2>3, <2>4, <2>6
  <2> QED BY <1>5, <2>5, <2>7
<1>8. t * k <= t * r
  BY <1>2, <1>3, <1>6, <1>7, Products
<1>9. RoundToStep(a) = t * r
  BY <1>1, <1>4 DEF RoundToStep
<1>10. PICK f, l : f = U + s /\ l = level * f
  OBVIOUS
<1>11. l \in Nat /\ a <= l
  <2>1. f \in Nat /\ U <= f
    BY <1>2, <1>10
  <2>2. x * U <= x * f /\ f * x <= f * level
    BY <1>2, <2>1, Products
  <2>3. x * f = f * x /\ level * f = f * level /\ f * level \in Nat /\ x * U \in Nat /\ f * x \in Nat
    BY <1>2, <2>1
  <2> QED BY <1>4, <1>10, <2>2, <2>3
<1>12. RoundToStep(a) <= RoundToStep(l)
  BY <1>5, <1>11, RoundedMonotone
<1>13. EntryPrice(level) = RoundToStep(l)
  BY <1>1, <1>10 DEF EntryPrice
<1>14. RoundToStep(a) \in Nat /\ RoundToStep(l) \in Nat /\ t * r \in Nat /\ t * k \in Nat
  BY <1>5, <1>11, RoundToStepType, <1>2, <1>3, <1>6
<1> QED BY <1>1, <1>3, <1>8, <1>9, <1>12, <1>13, <1>14

\* What a long position costs down to the stop, with the maintenance margin at its entry, is no less
\* than what it costs down to any price above the stop, with the maintenance margin there.
LEMMA LegCost ==
  ASSUME NEW U \in Nat, NEW m \in Nat, m <= U, NEW e \in Nat, NEW s \in Nat, NEW p \in Nat,
         s <= e, s < p, NEW q \in Nat, NEW f \in Nat
  PROVE  /\ U * q * (e - s) + m * (e * q) + f \in Nat
         /\ U * q * (e - p) + m * (p * q) + f \in Int
         /\ U * q * (e - p) + m * (p * q) + f <= U * q * (e - s) + m * (e * q) + f
<1>1. PICK w, k : w = U * q /\ k = m * q
  OBVIOUS
<1>2. w \in Nat /\ k \in Nat /\ k <= w
  <2>1. q * m <= q * U
    BY Products
  <2> QED BY <1>1, <2>1
<1>3. m * (p * q) = k * p /\ m * (e * q) = k * e
  BY <1>1
<1>4. PICK x, y : x = p - s /\ y = e - s
  OBVIOUS
<1>5. x \in Nat /\ y \in Nat /\ e - p = y - x /\ p = s + x /\ e = s + y
  BY <1>4
<1>6. PICK a, b, c, d : a = w * x /\ b = w * y /\ c = k * x /\ d = k * y
  OBVIOUS
<1>7. a \in Nat /\ b \in Nat /\ c \in Nat /\ d \in Nat
  BY <1>2, <1>5, <1>6
<1>8. c <= a
  <2>1. x * k <= x * w
    BY <1>2, <1>5, Products
  <2>2. x * k = k * x /\ x * w = w * x
    BY <1>2, <1>5
  <2> QED BY <1>6, <2>1, <2>2
<1>9. PICK h : h = k * s
  OBVIOUS
<1>10. h \in Nat /\ k * p = h + c /\ k * e = h + d
  <2>1. k * (s + x) = k * s + k * x /\ k * (s + y) = k * s + k * y /\ k * s \in Nat
    BY <1>2, <1>5
  <2> QED BY <1>5, <1>6, <1>9, <2>1
<1>11. w * (e - p) = b - a /\ w * (e - s) = b
  <2>1. w * (y - x) = w * y - w * x
    BY <1>2, <1>5
  <2> QED BY <1>4, <1>5, <1>6, <2>1
<1>12. /\ U * q * (e - s) + m * (e * q) + f = b + (h + d) + f
       /\ U * q * (e - p) + m * (p * q) + f = b - a + (h + c) + f
  BY <1>1, <1>3, <1>10, <1>11
<1>13. c <= a + d
  BY <1>7, <1>8
<1>14. b - a + (h + c) + f <= b + (h + d) + f /\ b + (h + d) + f \in Nat /\ b - a + (h + c) + f \in Int
  BY <1>7, <1>8, <1>10, <1>13
<1> QED BY <1>12, <1>14

\* What a position costs down to a price, with the maintenance margin at a price.
CostOf(position, price, at) ==
  Unit * position.quantity * (position.entry - price) + strategy.mmr * (at * position.quantity)
    + position.fee

\* What everything that is held costs down to a price, together.
LEMMA HeldCost ==
  ASSUME Held, IsLong, NEW p \in Amount, NEW f, f = [g \in DOMAIN positions |-> CostOf(positions[g], p, p)]
  PROVE  /\ SumFunctionOnSet(f, DOMAIN positions)
              = strategy.mmr * UsedNotional(p) - UnrealizedPnl(p) + EntryFees
         /\ \A g \in DOMAIN positions : f[g] \in Int
<1>1. PICK D, m : D = DOMAIN positions /\ m = strategy.mmr
  OBVIOUS
<1>2. IsFiniteSet(D) /\ \A g \in D : positions[g] \in PositionType
  BY <1>1, GridsFinite, FS_Subset DEF Held
<1>3. m \in Int /\ strategy \in Strategies /\ p \in Int /\ Unit \in Int
  BY <1>1, StrategyFacts DEF Held, Amount
<1> DEFINE gross == [g \in D |-> GrossOf(positions[g], p)]
           lost == [g \in D |-> -gross[g]]
           worth == [g \in D |-> p * positions[g].quantity]
           kept == [g \in D |-> m * worth[g]]
           fee == [g \in D |-> positions[g].fee]
           both == [g \in D |-> lost[g] + kept[g]]
<1>4. \A g \in D : /\ gross[g] \in Int /\ lost[g] = -gross[g] /\ worth[g] \in Int
                   /\ kept[g] = m * worth[g] /\ kept[g] \in Int /\ fee[g] \in Int /\ lost[g] \in Int
                   /\ both[g] = lost[g] + kept[g] /\ both[g] \in Int
                   /\ f[g] = both[g] + fee[g]
  <2> SUFFICES ASSUME NEW g \in D
               PROVE  /\ gross[g] \in Int /\ worth[g] \in Int /\ m * worth[g] \in Int /\ fee[g] \in Int
                      /\ f[g] = (-gross[g] + m * worth[g]) + fee[g]
    OBVIOUS
  <2>1. PICK q, e, h : q = positions[g].quantity /\ e = positions[g].entry /\ h = positions[g].fee
    OBVIOUS
  <2>2. q \in Int /\ e \in Int /\ h \in Int
    BY <1>2, <2>1 DEF PositionType, Amount
  <2>3. gross[g] = Unit * q * (p - e) /\ worth[g] = p * q /\ fee[g] = h
    BY <2>1 DEF GrossOf
  <2>4. PICK w : w = Unit * q
    OBVIOUS
  <2>5. w \in Int
    BY <1>3, <2>2, <2>4
  <2>6. PICK x, y, z : x = w * p /\ y = w * e /\ z = p * q
    OBVIOUS
  <2>7. x \in Int /\ y \in Int /\ z \in Int
    BY <1>3, <2>2, <2>5, <2>6
  <2>8. w * (p - e) = x - y /\ w * (e - p) = y - x
    BY <1>3, <2>2, <2>5, <2>6
  <2>9. f[g] = Unit * q * (e - p) + m * (p * q) + h
    BY <1>1, <2>1 DEF CostOf
  <2>10. m * z \in Int
    BY <1>3, <2>7
  <2>11. PICK u : u = m * z
    OBVIOUS
  <2>12. gross[g] = x - y /\ worth[g] = z /\ f[g] = y - x + u + h /\ m * worth[g] = u /\ u \in Int
    BY <2>3, <2>4, <2>6, <2>8, <2>9, <2>10, <2>11
  <2> QED BY <2>2, <2>3, <2>7, <2>12
<1>5. /\ UnrealizedPnl(p) = SumFunctionOnSet(gross, D) /\ UsedNotional(p) = SumFunctionOnSet(worth, D)
      /\ EntryFees = SumFunctionOnSet(fee, D)
  BY <1>1 DEF UnrealizedPnl, UsedNotional, EntryFees, SumFunction
<1> HIDE DEF gross, lost, worth, kept, fee, both
<1>6. SumFunctionOnSet(lost, D) = -SumFunctionOnSet(gross, D)
  BY <1>2, <1>4, SumNegate
<1>7. SumFunctionOnSet(kept, D) = m * SumFunctionOnSet(worth, D)
  BY <1>2, <1>3, <1>4, SumTimes
<1>8. SumFunctionOnSet(both, D) = SumFunctionOnSet(lost, D) + SumFunctionOnSet(kept, D)
  <2>1. \A g \in D : lost[g] \in Int /\ kept[g] \in Int /\ both[g] = lost[g] + kept[g]
    BY <1>4
  <2> QED BY <1>2, <2>1, SumPlus
<1>9. SumFunctionOnSet(f, D) = SumFunctionOnSet(both, D) + SumFunctionOnSet(fee, D)
  <2>1. \A g \in D : both[g] \in Int /\ fee[g] \in Int /\ f[g] = both[g] + fee[g]
    BY <1>4
  <2> QED BY <1>2, <2>1, SumPlus
<1>10. SumFunctionOnSet(gross, D) \in Int /\ SumFunctionOnSet(worth, D) \in Int /\ SumFunctionOnSet(fee, D) \in Int
  BY <1>2, <1>4, SumInt
<1>11. \A g \in D : f[g] \in Int
  BY <1>4
<1>12. PICK a, b, c, d : /\ a = SumFunctionOnSet(gross, D) /\ b = SumFunctionOnSet(worth, D)
                         /\ c = SumFunctionOnSet(fee, D) /\ d = m * SumFunctionOnSet(worth, D)
  OBVIOUS
<1>13. a \in Int /\ c \in Int /\ d \in Int
  BY <1>3, <1>10, <1>12
<1>14. SumFunctionOnSet(f, D) = (-a + d) + c
  BY <1>6, <1>7, <1>8, <1>9, <1>12
<1>15. SumFunctionOnSet(f, D) = d - a + c
  BY <1>13, <1>14
<1> QED BY <1>1, <1>5, <1>11, <1>12, <1>15

\* What all the legs cost down to the stop, together.
LEMMA LegsCost ==
  ASSUME strategy \in Strategies, NEW legs, IsFiniteSet(DOMAIN legs),
         \A g \in DOMAIN legs : legs[g] \in PositionType, NEW s \in Nat,
         NEW f, f = [g \in DOMAIN legs |-> CostOf(legs[g], s, legs[g].entry)],
         NEW Q, Q = SumFunction([g \in DOMAIN legs |-> legs[g].quantity]),
         NEW N, N = SumFunction([g \in DOMAIN legs |-> legs[g].entry * legs[g].quantity]),
         NEW F, F = SumFunction([g \in DOMAIN legs |-> legs[g].fee])
  PROVE  /\ SumFunctionOnSet(f, DOMAIN legs) = Unit * N - (Unit * s) * Q + strategy.mmr * N + F
         /\ Q \in Nat /\ N \in Nat /\ F \in Nat
         /\ DOMAIN legs # {} => Q > 0
<1>1. PICK L, m, U : L = DOMAIN legs /\ m = strategy.mmr /\ U = Unit
  OBVIOUS
<1>2. m \in Nat /\ U \in Nat /\ m \in Int /\ U \in Int /\ s \in Nat /\ U * s \in Int
  <2>1. m \in Nat /\ U \in Nat
    BY <1>1, StrategyFacts DEF Amount
  <2> QED BY <2>1
<1> DEFINE q == [g \in L |-> legs[g].quantity]
           n == [g \in L |-> legs[g].entry * legs[g].quantity]
           fee == [g \in L |-> legs[g].fee]
           un == [g \in L |-> U * n[g]]
           us == [g \in L |-> (U * s) * q[g]]
           mn == [g \in L |-> m * n[g]]
           gap == [g \in L |-> un[g] - us[g]]
           both == [g \in L |-> gap[g] + mn[g]]
<1>3. \A g \in L : /\ q[g] \in Nat /\ q[g] > 0 /\ n[g] \in Nat /\ fee[g] \in Nat
                   /\ q[g] \in Int /\ n[g] \in Int /\ fee[g] \in Int
                   /\ un[g] = U * n[g] /\ us[g] = (U * s) * q[g] /\ mn[g] = m * n[g]
                   /\ un[g] \in Int /\ us[g] \in Int /\ mn[g] \in Int
                   /\ gap[g] = un[g] - us[g] /\ gap[g] \in Int
                   /\ both[g] = gap[g] + mn[g] /\ both[g] \in Int
                   /\ f[g] = both[g] + fee[g]
  <2> SUFFICES ASSUME NEW g \in L
               PROVE  /\ q[g] \in Nat /\ q[g] > 0 /\ n[g] \in Nat /\ fee[g] \in Nat
                      /\ U * n[g] \in Int /\ (U * s) * q[g] \in Int /\ m * n[g] \in Int
                      /\ f[g] = ((U * n[g] - (U * s) * q[g]) + m * n[g]) + fee[g]
    OBVIOUS
  <2>1. PICK a, e, h : a = legs[g].quantity /\ e = legs[g].entry /\ h = legs[g].fee
    OBVIOUS
  <2>2. a \in Nat /\ a > 0 /\ e \in Nat /\ h \in Nat
    BY <1>1, <2>1 DEF PositionType, Amount
  <2>3. q[g] = a /\ n[g] = e * a /\ fee[g] = h
    BY <2>1
  <2>4. f[g] = U * a * (e - s) + m * (e * a) + h
    BY <1>1, <2>1 DEF CostOf
  <2>5. U * a * (e - s) = U * (e * a) - (U * s) * a
    BY <1>2, <2>2
  <2>6. e * a \in Nat /\ (U * s) * a \in Int
    BY <1>2, <2>2
  <2>7. PICK k : k = e * a
    OBVIOUS
  <2>8. k \in Nat /\ U * k \in Int /\ m * k \in Int
    BY <1>2, <2>6, <2>7
  <2> QED BY <2>2, <2>3, <2>4, <2>5, <2>6, <2>7, <2>8
<1>4. Q = SumFunctionOnSet(q, L) /\ N = SumFunctionOnSet(n, L) /\ F = SumFunctionOnSet(fee, L)
  BY <1>1 DEF SumFunction
<1>5. IsFiniteSet(L)
  BY <1>1
<1> HIDE DEF q, n, fee, un, us, mn, gap, both
<1>6. Q \in Nat /\ N \in Nat /\ F \in Nat
  BY <1>3, <1>4, <1>5, SumNat
<1>7. SumFunctionOnSet(un, L) = U * N
  <2>1. U \in Int /\ \A g \in L : n[g] \in Int /\ un[g] = U * n[g]
    BY <1>2, <1>3
  <2> QED BY <1>4, <1>5, <2>1, SumTimes
<1>8. SumFunctionOnSet(us, L) = (U * s) * Q
  <2>1. PICK k : k = U * s
    OBVIOUS
  <2>2. k \in Int /\ \A g \in L : q[g] \in Int /\ us[g] = k * q[g]
    BY <1>2, <1>3, <2>1
  <2>3. SumFunctionOnSet(us, L) = k * SumFunctionOnSet(q, L)
    BY <1>5, <2>2, SumTimes
  <2> QED BY <1>4, <2>1, <2>3
<1>9. SumFunctionOnSet(mn, L) = m * N
  <2>1. m \in Int /\ \A g \in L : n[g] \in Int /\ mn[g] = m * n[g]
    BY <1>2, <1>3
  <2> QED BY <1>4, <1>5, <2>1, SumTimes
<1>10. SumFunctionOnSet(gap, L) = SumFunctionOnSet(un, L) - SumFunctionOnSet(us, L)
  <2>1. \A g \in L : un[g] \in Int /\ us[g] \in Int /\ gap[g] = un[g] - us[g]
    BY <1>3
  <2> QED BY <1>5, <2>1, SumMinus
<1>11. SumFunctionOnSet(both, L) = SumFunctionOnSet(gap, L) + SumFunctionOnSet(mn, L)
  <2>1. \A g \in L : gap[g] \in Int /\ mn[g] \in Int /\ both[g] = gap[g] + mn[g]
    BY <1>3
  <2> QED BY <1>5, <2>1, SumPlus
<1>12. SumFunctionOnSet(f, L) = SumFunctionOnSet(both, L) + SumFunctionOnSet(fee, L)
  <2>1. \A g \in L : both[g] \in Int /\ fee[g] \in Int /\ f[g] = both[g] + fee[g]
    BY <1>3
  <2> QED BY <1>5, <2>1, SumPlus
<1>13. SumFunctionOnSet(f, L) = ((U * N - (U * s) * Q) + m * N) + F
  BY <1>4, <1>7, <1>8, <1>9, <1>10, <1>11, <1>12
<1>14. L # {} => Q > 0
  <2> SUFFICES ASSUME NEW g \in L PROVE Q > 0
    OBVIOUS
  <2>1. \A x \in L : q[x] \in Int
    BY <1>3
  <2>2. Q = q[g] + SumFunctionOnSet(q, L \ {g})
    BY <1>4, <1>5, <2>1, SumRemove
  <2>3. PICK R : R = L \ {g}
    OBVIOUS
  <2>4. IsFiniteSet(R) /\ \A x \in R : q[x] \in Nat
    BY <1>3, <1>5, <2>3, FS_Subset
  <2>5. SumFunctionOnSet(q, R) \in Nat
    BY <2>4, SumNat
  <2>6. q[g] \in Nat /\ q[g] > 0
    BY <1>3
  <2> QED BY <2>2, <2>3, <2>5, <2>6
<1> QED BY <1>1, <1>6, <1>13, <1>14

\* Legs that cost the margin and more down to the stop have their liquidation price there or above.
LEMMA LiquidatedBefore ==
  ASSUME strategy \in Strategies, IsLong, NEW legs, IsFiniteSet(DOMAIN legs), DOMAIN legs # {},
         \A g \in DOMAIN legs : legs[g] \in PositionType /\ legs[g].entry >= strategy.stop,
         NEW f, f = [g \in DOMAIN legs |-> CostOf(legs[g], strategy.stop, legs[g].entry)],
         SumFunctionOnSet(f, DOMAIN legs) >= Unit * strategy.margin
  PROVE  LET liquidation == LiquidationOf(legs) IN
         liquidation # NoQuotient /\ ~StopIsBetween(liquidation)
<1>1. PICK U, m, s, M : U = Unit /\ m = strategy.mmr /\ s = strategy.stop /\ M = Unit * strategy.margin
  OBVIOUS
<1>2. U \in Nat /\ U > 0 /\ m \in Nat /\ s \in Nat /\ s > 0 /\ M \in Nat
  <2>1. Unit \in Nat /\ Unit > 0 /\ strategy.margin \in Nat /\ strategy.mmr \in Nat
        /\ strategy.stop \in Nat /\ strategy.stop > 0
    BY StrategyFacts DEF Amount
  <2>2. Unit * strategy.margin \in Nat
    BY <2>1
  <2> QED BY <1>1, <2>1, <2>2
<1>3. PICK Q, N, F : /\ Q = SumFunction([g \in DOMAIN legs |-> legs[g].quantity])
                     /\ N = SumFunction([g \in DOMAIN legs |-> legs[g].entry * legs[g].quantity])
                     /\ F = SumFunction([g \in DOMAIN legs |-> legs[g].fee])
  OBVIOUS
<1>4. /\ SumFunctionOnSet(f, DOMAIN legs) = U * N - (U * s) * Q + m * N + F
      /\ Q \in Nat /\ N \in Nat /\ F \in Nat /\ Q > 0
  <2>1. strategy.stop \in Nat
    BY <1>1, <1>2
  <2>2. /\ SumFunctionOnSet(f, DOMAIN legs)
              = Unit * N - (Unit * strategy.stop) * Q + strategy.mmr * N + F
        /\ Q \in Nat /\ N \in Nat /\ F \in Nat
        /\ DOMAIN legs # {} => Q > 0
    BY <1>3, <2>1, LegsCost
  <2> QED BY <1>1, <2>2
\* Every leg is entered at the stop or above it.
<1>5. (U * s) * Q <= U * N
  <2> DEFINE n == [g \in DOMAIN legs |-> legs[g].entry * legs[g].quantity]
             q == [g \in DOMAIN legs |-> legs[g].quantity]
             sq == [g \in DOMAIN legs |-> s * q[g]]
  <2>1. \A g \in DOMAIN legs : /\ n[g] \in Int /\ q[g] \in Int /\ sq[g] = s * q[g] /\ sq[g] \in Int
                               /\ sq[g] <= n[g]
    <3> SUFFICES ASSUME NEW g \in DOMAIN legs
                 PROVE  n[g] \in Int /\ q[g] \in Int /\ s * q[g] \in Int /\ s * q[g] <= n[g]
      OBVIOUS
    <3>1. PICK a, e : a = legs[g].quantity /\ e = legs[g].entry
      OBVIOUS
    <3>2. a \in Nat /\ e \in Nat /\ s <= e
      BY <1>1, <1>2, <3>1 DEF PositionType, Amount
    <3>3. a * s <= a * e
      BY <1>2, <3>2, Products
    <3>4. a * s = s * a /\ a * e = e * a /\ s * a \in Int /\ e * a \in Int
      BY <1>2, <3>2
    <3> QED BY <3>1, <3>2, <3>3, <3>4
  <2>2. Q = SumFunctionOnSet(q, DOMAIN legs) /\ N = SumFunctionOnSet(n, DOMAIN legs)
    BY <1>3 DEF SumFunction
  <2> HIDE DEF n, q, sq
  <2>3. s \in Int
    BY <1>2
  <2>4. SumFunctionOnSet(sq, DOMAIN legs) = s * SumFunctionOnSet(q, DOMAIN legs)
    BY <2>1, <2>3, SumTimes
  <2>5. SumFunctionOnSet(sq, DOMAIN legs) <= SumFunctionOnSet(n, DOMAIN legs)
    BY <2>1, SumAtMost
  <2>6. PICK k : k = s * Q
    OBVIOUS
  <2>7. k \in Int /\ k <= N /\ U * k <= U * N
    <3>1. k \in Int
      BY <1>2, <1>4, <2>6
    <3>2. k <= N
      BY <2>2, <2>4, <2>5, <2>6
    <3> QED BY <1>2, <1>4, <3>1, <3>2, Products
  <2>8. (U * s) * Q = U * (s * Q)
    BY <1>2, <1>4
  <2> QED BY <2>6, <2>7, <2>8
<1>6. PICK a, b, c : a = U * N /\ b = (U * s) * Q /\ c = m * N
  OBVIOUS
<1>7. a \in Nat /\ b \in Nat /\ b > 0 /\ c \in Nat /\ b <= a
  <2>1. a \in Nat /\ c \in Nat
    BY <1>2, <1>4, <1>6
  <2>2. U * s \in Nat /\ U * s > 0
    BY <1>2
  <2>3. b \in Nat /\ b > 0
    <3>1. PICK k : k = U * s
      OBVIOUS
    <3>2. k \in Nat /\ k > 0 /\ k * Q \in Nat /\ k * Q > 0
      BY <1>4, <2>2, <3>1
    <3> QED BY <1>6, <3>1, <3>2
  <2> QED BY <1>5, <1>6, <2>1, <2>3
<1>8. M <= a - b + c + F
  BY <1>1, <1>4, <1>6
<1>9. PICK margin, buffer : margin = Max({0, M - F}) /\ buffer = Max({0, margin - c})
  OBVIOUS
<1>10. buffer \in Int /\ buffer <= a - b
  <2>1. PICK z \in Int : z = 0
    OBVIOUS
  <2>2. M - F \in Int
    BY <1>2, <1>4
  <2>3. Max({z, M - F}) \in {z, M - F}
    BY <2>1, <2>2, LargerOf
  <2>4. margin \in {0, M - F}
    BY <1>9, <2>1, <2>3
  <2>5. margin \in Int /\ margin - c \in Int
    BY <1>7, <2>2, <2>4
  <2>6. Max({z, margin - c}) \in {z, margin - c}
    BY <2>1, <2>5, LargerOf
  <2>7. buffer \in {0, margin - c}
    BY <1>9, <2>1, <2>6
  <2> QED BY <1>2, <1>4, <1>7, <1>8, <2>4, <2>7
<1>11. PICK parts : parts = a - buffer
  OBVIOUS
<1>12. parts \in Int /\ parts >= b /\ parts > 0
  BY <1>7, <1>10, <1>11
<1>13. LiquidationOf(legs) = Quotient(parts, U * Q)
  <2>1. LiquidationOf(legs) = IF DOMAIN legs = {} \/ parts <= 0 THEN NoQuotient ELSE Quotient(parts, Unit * Q)
    BY <1>1, <1>3, <1>6, <1>9, <1>11 DEF LiquidationOf
  <2>2. ~(DOMAIN legs = {} \/ parts <= 0)
    BY <1>12
  <2> QED BY <1>1, <2>1, <2>2
<1>14. PICK L : L = LiquidationOf(legs)
  OBVIOUS
<1>15. L.parts = parts /\ L.per = U * Q
  BY <1>13, <1>14 DEF Quotient
<1>16. L # NoQuotient
  BY <1>12, <1>15 DEF NoQuotient, Quotient
<1>17. s * (U * Q) = b
  BY <1>2, <1>4, <1>6
<1>18. ~(L.parts < strategy.stop * L.per)
  BY <1>1, <1>7, <1>12, <1>15, <1>17
<1>19. ~StopIsBetween(L)
  BY <1>18 DEF StopIsBetween
<1> QED BY <1>14, <1>16, <1>19

\* A long grid that holds legs of the worst case above its stop, without the equity for the
\* maintenance margin at a price above the stop, fails the guard on the stop.
LEMMA GuardFails ==
  ASSUME Held, LegsHeld, IsLong, DOMAIN positions # {},
         history.first \in Amount, history.first > strategy.stop, strategy.stop % strategy.tick = 0,
         NEW p \in Amount, p > strategy.stop,
         Equity(p) <= UsedNotional(p) * strategy.mmr,
         state.realized - state.fees >= -EntryFees
  PROVE  ViolatesStopGuard(history.first)
<1>1. PICK first, legs, D, s : /\ first = history.first /\ legs = WorstCaseLegs(history.first)
                               /\ D = DOMAIN positions /\ s = strategy.stop
  OBVIOUS
<1>2. strategy \in Strategies /\ s \in Nat /\ first \in Amount /\ p \in Nat
  BY <1>1, StrategyFacts DEF Held, Amount
<1>3. /\ IsFiniteSet(DOMAIN legs) /\ DOMAIN legs \subseteq Grids
      /\ \A g \in DOMAIN legs : legs[g] \in PositionType
  BY <1>1, <1>2, LegsTyped
<1>4. D \in SUBSET DOMAIN legs /\ D # {} /\ \A g \in D : positions[g] = legs[g]
  BY <1>1 DEF LegsHeld
<1>5. \A g \in DOMAIN legs : legs[g].entry >= s
  <2> SUFFICES ASSUME NEW g \in DOMAIN legs PROVE legs[g].entry >= s
    OBVIOUS
  <2>1. g \in Grids
    BY <1>3
  <2>2. CASE g \in BaseGrids(first)
    <3>1. Accepted(EntryPrice(first))
      BY <1>1, <1>2, <2>2, LegFacts
    <3>2. legs[g] = Position(first, strategy.taker)
      BY <1>1, <1>2, <2>2, <3>1, LegFacts
    <3>3. EntryPrice(first) >= s
      BY <1>1, <1>2, EntryAboveStop
    <3> QED BY <3>2, <3>3 DEF Position
  <2>3. CASE g \notin BaseGrids(first)
    <3>1. legs[g] = Position(EntryLevel(g), strategy.maker)
      <4>1. legs = WorstCaseLegs(first) /\ g \in Grids \ BaseGrids(first) /\ g \in DOMAIN legs
        BY <1>1, <2>1, <2>3
      <4>2. \A i \in Grids \ BaseGrids(first) :
              i \in DOMAIN legs => legs[i] = Position(EntryLevel(i), strategy.maker)
        BY <1>2, <4>1, LegFacts
      <4> QED BY <4>1, <4>2
    <3>2. EntryLevel(g) \in Amount /\ EntryLevel(g) > strategy.stop
      BY <1>2, <2>1, LevelType, OrderBeforeStop DEF BeforeStop
    <3>3. EntryPrice(EntryLevel(g)) >= s
      BY <1>1, <1>2, <3>2, EntryAboveStop
    <3> QED BY <3>1, <3>3 DEF Position
  <2> QED BY <2>2, <2>3
<1> DEFINE f == [g \in DOMAIN legs |-> CostOf(legs[g], s, legs[g].entry)]
           h == [g \in D |-> CostOf(positions[g], p, p)]
<1>6. \A g \in DOMAIN legs : f[g] \in Nat /\ f[g] \in Int /\ (g \in D => h[g] \in Int /\ h[g] <= f[g])
  <2> SUFFICES ASSUME NEW g \in DOMAIN legs
               PROVE  f[g] \in Nat /\ f[g] \in Int /\ (g \in D => h[g] \in Int /\ h[g] <= f[g])
    OBVIOUS
  <2>1. PICK U, m, e, q, r : /\ U = Unit /\ m = strategy.mmr /\ e = legs[g].entry
                             /\ q = legs[g].quantity /\ r = legs[g].fee
    OBVIOUS
  <2>2. U \in Nat /\ m \in Nat /\ m <= U /\ e \in Nat /\ q \in Nat /\ r \in Nat /\ s <= e /\ s < p
    <3>1. U \in Nat /\ m \in Nat /\ m <= U
      BY <1>2, <2>1, StrategyFacts DEF Amount
    <3>2. e \in Nat /\ q \in Nat /\ r \in Nat
      BY <1>3, <2>1 DEF PositionType, Amount
    <3>3. s <= e
      BY <1>2, <1>5, <2>1, <3>2
    <3>4. s < p
      BY <1>1, <1>2
    <3> QED BY <3>1, <3>2, <3>3, <3>4
  <2>3. /\ U * q * (e - s) + m * (e * q) + r \in Nat
        /\ U * q * (e - p) + m * (p * q) + r \in Int
        /\ U * q * (e - p) + m * (p * q) + r <= U * q * (e - s) + m * (e * q) + r
    BY <1>2, <2>2, LegCost
  <2>4. f[g] = U * q * (e - s) + m * (e * q) + r
    BY <2>1 DEF CostOf
  <2>5. g \in D => h[g] = U * q * (e - p) + m * (p * q) + r
    BY <1>4, <2>1 DEF CostOf
  <2> QED BY <2>3, <2>4, <2>5
<1>7. /\ SumFunctionOnSet(h, D) = strategy.mmr * UsedNotional(p) - UnrealizedPnl(p) + EntryFees
      /\ \A g \in D : h[g] \in Int
  BY <1>1, HeldCost
<1>8. IsFiniteSet(D)
  BY <1>3, <1>4, FS_Subset
<1> HIDE DEF h
<1>9. SumFunctionOnSet(h, D) >= Unit * strategy.margin
  <2>1. PICK a, b, c, d, r, M :
          /\ a = UnrealizedPnl(p) /\ b = UsedNotional(p) /\ c = EntryFees /\ d = strategy.mmr
          /\ r = state.realized - state.fees /\ M = Unit * strategy.margin
    OBVIOUS
  <2>2. a \in Int /\ b \in Int /\ c \in Int /\ d \in Int /\ r \in Int /\ M \in Int
    <3>1. a \in Int /\ b \in Int
      BY <2>1, ValueType
    <3>2. c \in Int
      BY <2>1, FeesType
    <3>3. r \in Int
      BY <2>1, StateFacts DEF Held
    <3>4. Unit \in Int /\ strategy.margin \in Int /\ d \in Int
      BY <1>2, <2>1, StrategyFacts DEF Amount
    <3>5. Unit * strategy.margin \in Int
      BY <3>4
    <3> QED BY <2>1, <3>1, <3>2, <3>3, <3>4, <3>5
  <2>3. Equity(p) = M + r + a
    <3>1. Equity(p) = Unit * strategy.margin + state.realized - state.fees + UnrealizedPnl(p)
      BY DEF Equity
    <3>2. state.realized \in Int /\ state.fees \in Int
      BY StateFacts DEF Held
    <3> QED BY <2>1, <2>2, <3>1, <3>2
  <2>4. PICK k : k = d * b
    OBVIOUS
  <2>5. k \in Int /\ b * d = k
    BY <2>2, <2>4
  <2>6. M + r + a <= k /\ r >= -c
    BY <2>1, <2>3, <2>5
  <2>7. SumFunctionOnSet(h, D) = k - a + c
    BY <1>7, <2>1, <2>4
  <2>8. k - a + c >= M
    BY <2>2, <2>5, <2>6
  <2> QED BY <2>1, <2>7, <2>8
<1>10. SumFunctionOnSet(f, DOMAIN legs) >= Unit * strategy.margin
  <2> HIDE DEF f
  <2>1. \A g \in D : h[g] \in Int /\ f[g] \in Int /\ h[g] <= f[g]
    BY <1>4, <1>6
  <2>2. SumFunctionOnSet(h, D) <= SumFunctionOnSet(f, D)
    BY <1>8, <2>1, SumAtMost
  <2>3. (\A g \in DOMAIN legs : f[g] \in Int) /\ (\A g \in DOMAIN legs \ D : f[g] >= 0)
    BY <1>6
  <2>4. SumFunctionOnSet(f, D) <= SumFunctionOnSet(f, DOMAIN legs)
    BY <1>3, <1>4, <2>3, SumSubset
  <2>5. PICK x, y, z, M : /\ x = SumFunctionOnSet(h, D) /\ y = SumFunctionOnSet(f, D)
                          /\ z = SumFunctionOnSet(f, DOMAIN legs) /\ M = Unit * strategy.margin
    OBVIOUS
  <2>6. x \in Int /\ y \in Int /\ z \in Int
    BY <1>3, <1>8, <2>1, <2>3, <2>5, SumInt
  <2>7. M \in Int
    <3>1. Unit \in Int /\ strategy.margin \in Int
      BY <1>2, StrategyFacts DEF Amount
    <3> QED BY <2>5, <3>1
  <2> QED BY <1>9, <2>2, <2>4, <2>5, <2>6, <2>7
<1>11. PICK F : F = [g \in DOMAIN legs |-> CostOf(legs[g], strategy.stop, legs[g].entry)]
  OBVIOUS
<1>12. SumFunctionOnSet(F, DOMAIN legs) >= Unit * strategy.margin
  BY <1>1, <1>10, <1>11
<1>13. \A g \in DOMAIN legs : legs[g] \in PositionType /\ legs[g].entry >= strategy.stop
  BY <1>1, <1>3, <1>5
<1>14. DOMAIN legs # {}
  BY <1>4
<1>15. LET liquidation == LiquidationOf(legs) IN
       liquidation # NoQuotient /\ ~StopIsBetween(liquidation)
  BY <1>2, <1>3, <1>11, <1>12, <1>13, <1>14, LiquidatedBefore
<1> QED BY <1>1, <1>15 DEF ViolatesStopGuard

-----------------------------------------------------------------------------
(* The steps, and what the page says.                                      *)

\* Who was liquidated trades no more.
LiquidatedIsOver == "liquidation" \in state.reasons => ~active

\* What holds between any two steps of what the page says.
PrecheckInv == Inv /\ AccountInv /\ BeganWith /\ LiquidatedIsOver /\ StopComesFirst

\* The guard on the stop is the same while the strategy and the first close are.
LEMMA SameGuard ==
  ASSUME strategy' = strategy, history'.first = history.first
  PROVE  ViolatesStopGuard(history.first)' <=> ViolatesStopGuard(history.first)
<1>1. PICK L : L = WorstCaseLegs(history.first)
  OBVIOUS
<1>2. WorstCaseLegs(history.first)' = L
  BY <1>1, SameLegs
<1>3. PICK Q : Q = LiquidationOf(L)
  OBVIOUS
<1>4. LiquidationOf(L)' = Q
  BY <1>3 DEF LiquidationOf, IsLong
<1>5. StopIsBetween(Q)' <=> StopIsBetween(Q)
  BY DEF StopIsBetween, IsLong, Line
<1>6. ViolatesStopGuard(history.first) <=> Q # NoQuotient /\ ~StopIsBetween(Q)
  BY <1>1, <1>3 DEF ViolatesStopGuard
<1>7. ViolatesStopGuard(history.first)' <=> Q # NoQuotient /\ ~StopIsBetween(Q)'
  BY <1>2, <1>4 DEF ViolatesStopGuard, NoQuotient, Quotient
<1> QED BY <1>5, <1>6, <1>7

\* What StopComesFirst asks of a run, without what was closed.
AgainstAtStop ==
  IsLong /\ history.adverse /\ state.funding >= 0 /\ Estimated /\ strategy.stop % strategy.tick = 0

\* A step that neither liquidates nor pays funding after a liquidation.
LEMMA StopFirstKept ==
  ASSUME StopComesFirst, strategy' = strategy, history'.first = history.first,
         history'.adverse => history.adverse,
         state'.reasons = {"liquidation"} =>
           state.reasons = {"liquidation"} /\ state'.funding = state.funding
  PROVE  StopComesFirst'
<1>1. /\ ViolatesStopGuard(history.first)' <=> ViolatesStopGuard(history.first)
      /\ Estimated' <=> Estimated
      /\ IsLong' <=> IsLong
  BY SameGuard, SameEstimate, SameStrategy
<1>2. StopComesFirst <=> (AgainstAtStop /\ state.reasons = {"liquidation"} => ViolatesStopGuard(history.first))
  BY DEF StopComesFirst, AgainstAtStop, Estimated
<1>3. StopComesFirst' <=> (AgainstAtStop /\ state.reasons = {"liquidation"} => ViolatesStopGuard(history.first))'
  BY DEF StopComesFirst, AgainstAtStop, Estimated
<1> QED BY <1>1, <1>2, <1>3 DEF AgainstAtStop

\* Closing some of what is held.
LEMMA CloseReasons ==
  ASSUME state \in StateType, NEW STATE grids, NEW STATE level, NEW STATE rate, NEW STATE reason,
         Close(grids, level, rate, reason)
  PROVE  /\ state'.funding = state.funding
         /\ state'.reasons = IF grids = {} THEN state.reasons ELSE state.reasons \cup {reason}
<1>1. PICK s : s = state
  OBVIOUS
<1>2. PICK a, b, c, d, e :
        /\ state' = [s EXCEPT !.realized = a, !.fees = b, !.net = c, !.stops = d, !.reasons = e]
        /\ e = IF grids = {} THEN s.reasons ELSE s.reasons \cup {reason}
  BY <1>1 DEF Close
<1>3. s \in StateType
  BY <1>1
<1>4. state'.funding = s.funding /\ state'.reasons = e
  BY <1>2, <1>3 DEF StateType
<1> QED BY <1>1, <1>2, <1>4

\* Funding.
LEMMA FundingPrecheck ==
  ASSUME PrecheckInv, NEW STATE notional, notional \in Int,
         ScheduledFunding(notional) \/ LateFunding(notional)
  PROVE  BeganWith' /\ LiquidatedIsOver' /\ StopComesFirst'
<1>1. /\ Fixed /\ positions' = positions /\ active' = active
      /\ phase' \in {"carried", "liquidation"}
      /\ DOMAIN positions = {} => state' = state
  BY DEF ScheduledFunding, LateFunding
<1>2. strategy' = strategy /\ history' = history
  BY <1>1 DEF Fixed
<1>3. Held
  BY TypeHeld DEF PrecheckInv, AccountInv
<1>4. state'.reasons = state.reasons
  <2>1. CASE state' = state
    BY <2>1
  <2>2. CASE \E rate \in Int : Fund(rate, notional)
    <3>1. PICK rate \in Int : Fund(rate, notional)
      BY <2>2
    <3> QED BY <3>1, <1>3, FundMoney
  <2>3. strategy.rate \in Int /\ Rates \subseteq Int
    BY <1>3, StrategyFacts, UnitAssumption DEF Held
  <2> QED BY <2>1, <2>2, <2>3 DEF ScheduledFunding, LateFunding
<1>5. state.reasons = {"liquidation"} => state' = state
  BY <1>1 DEF PrecheckInv, LiquidatedIsOver, Inv, EndedIsFlat
<1>6. LiquidatedIsOver'
  BY <1>1, <1>4 DEF PrecheckInv, LiquidatedIsOver
<1>7. BeganWith'
  BY <1>1, BeganKept DEF PrecheckInv, AccountInv
<1>8. StopComesFirst'
  BY <1>2, <1>4, <1>5, StopFirstKept DEF PrecheckInv
<1> QED BY <1>6, <1>7, <1>8

\* The stop and the two passes.
LEMMA TradingPrecheck ==
  ASSUME PrecheckInv, NEW STATE touched,
         StopCarried \/ StopOpened \/ OpenPass(touched) \/ ClosePass(touched)
  PROVE  BeganWith' /\ LiquidatedIsOver' /\ StopComesFirst'
<1>1. Fixed /\ phase' # "funding"
  BY DEF StopCarried, StopOpened, OpenPass, ClosePass, NextPass
<1>2. strategy' = strategy /\ history' = history
  BY <1>1 DEF Fixed
<1>3. state \in StateType /\ TypeOK
  BY TypeHeld DEF PrecheckInv, AccountInv, Held
<1>4. active
  BY DEF StopCarried, StopOpened, OpenPass, ClosePass, PrecheckInv, Inv, ActiveWhileTrading, Trading
<1>5. "liquidation" \notin state.reasons
  BY <1>4 DEF PrecheckInv, LiquidatedIsOver
<1>6. "liquidation" \notin state'.reasons
  <2>1. ASSUME NEW STATE grids, NEW STATE level, NEW STATE rate, NEW STATE reason,
               reason \in {"stop_loss", "grid_take_profit"}, Close(grids, level, rate, reason)
        PROVE  "liquidation" \notin state'.reasons
    <3>1. state'.reasons = IF grids = {} THEN state.reasons ELSE state.reasons \cup {reason}
      BY <1>3, <2>1, CloseReasons
    <3>2. reason # "liquidation"
      BY <2>1
    <3> QED BY <1>5, <3>1, <3>2
  <2>2. CASE StopCarried \/ StopOpened
    <3>1. CASE StopIsTouched /\ DOMAIN positions # {}
      <4>1. PICK reason : reason = "stop_loss"
        OBVIOUS
      <4>2. Close(DOMAIN positions, At(DOMAIN positions, strategy.stop), strategy.taker, reason)
        BY <2>2, <3>1, <4>1 DEF StopCarried, StopOpened, StopLoss
      <4> QED BY <2>1, <4>1, <4>2
    <3>2. CASE ~(StopIsTouched /\ DOMAIN positions # {})
      BY <1>5, <2>2, <3>2 DEF StopCarried, StopOpened, StopLoss
    <3> QED BY <3>1, <3>2
  <2>3. CASE OpenPass(touched)
    <3>1. PICK fees : state' = [state EXCEPT !.fees = fees]
      BY <2>3 DEF OpenPass, Open
    <3> QED BY <1>3, <1>5, <3>1 DEF StateType
  <2>4. CASE ClosePass(touched)
    <3>1. PICK reason : reason = "grid_take_profit"
      OBVIOUS
    <3>2. PICK reached : reached = DOMAIN positions \cap touched
      OBVIOUS
    <3>3. Close(reached, [g \in reached |-> ExitLevel(g)], strategy.maker, reason)
      BY <2>4, <3>1, <3>2 DEF ClosePass
    <3> QED BY <2>1, <3>1, <3>3
  <2> QED BY <2>2, <2>3, <2>4
<1>7. BeganWith'
  BY <1>1, <1>3, BeganKept DEF PrecheckInv
<1>8. StopComesFirst'
  BY <1>2, <1>6, StopFirstKept DEF PrecheckInv
<1> QED BY <1>6, <1>7, <1>8 DEF LiquidatedIsOver

\* The liquidation: a first one, of a long grid against which closes only went, is at a price above
\* the stop.
LEMMA LiquidationPrecheck ==
  ASSUME PrecheckInv, Liquidation(Equity(LiquidationPrice), UsedNotional(LiquidationPrice))
  PROVE  BeganWith' /\ LiquidatedIsOver' /\ StopComesFirst'
<1>1. Fixed /\ phase = "liquidation" /\ phase' # "funding"
  BY DEF Liquidation
<1>2. strategy' = strategy /\ history' = history
  BY <1>1 DEF Fixed
<1>3. Held /\ state \in StateType /\ TypeOK /\ candle \in Candles /\ history.first \in Amount
  BY TypeHeld DEF PrecheckInv, AccountInv, Held
<1>4. BeganWith'
  BY <1>1, <1>3, BeganKept DEF PrecheckInv
<1>5. PICK p : p = LiquidationPrice
  OBVIOUS
<1>6. CASE ~(DOMAIN positions # {} /\ Equity(p) <= UsedNotional(p) * strategy.mmr)
  <2>1. state' = state /\ active' = active
    BY <1>5, <1>6 DEF Liquidation
  <2>2. LiquidatedIsOver'
    BY <2>1 DEF PrecheckInv, LiquidatedIsOver
  <2>3. StopComesFirst'
    BY <1>2, <2>1, StopFirstKept DEF PrecheckInv
  <2> QED BY <1>4, <2>2, <2>3
<1>7. CASE DOMAIN positions # {} /\ Equity(p) <= UsedNotional(p) * strategy.mmr
  <2>1. PICK reason : reason = "liquidation"
    OBVIOUS
  <2>2. /\ Close(DOMAIN positions, At(DOMAIN positions, p), strategy.taker, reason)
        /\ active' = FALSE
    BY <1>5, <1>7, <2>1 DEF Liquidation
  <2>3. state'.funding = state.funding /\ state'.reasons = state.reasons \cup {"liquidation"}
    BY <1>3, <1>7, <2>1, <2>2, CloseReasons
  <2>4. "liquidation" \notin state.reasons
    BY <1>7 DEF PrecheckInv, LiquidatedIsOver, Inv, EndedIsFlat
  <2>5. ASSUME AgainstAtStop, state.reasons = {} PROVE ViolatesStopGuard(history.first)
    <3>1. IsLong /\ history.adverse /\ Estimated /\ strategy.stop % strategy.tick = 0
      BY <2>5 DEF AgainstAtStop
    <3>2. LegsHeld /\ candle.close <= history.first /\ state.net = 0
      BY <2>5, <3>1 DEF PrecheckInv, AccountInv, WorstInv, LegsWhileOpen, AdverseSoFar, Recorded
    <3>3. ~StopIsTouched
      BY <1>1, <1>7 DEF PrecheckInv, Inv, NothingHeldBeyondStop
    <3>4. /\ strategy.stop \in Nat /\ candle.low \in Nat /\ candle.close \in Nat /\ history.first \in Nat
          /\ candle.low <= candle.close
      BY <1>3, StrategyFacts, CandleFacts DEF Held, Amount
    <3>5. candle.low > strategy.stop
      BY <3>1, <3>3, <3>4 DEF StopIsTouched
    <3>6. p \in Amount /\ p > strategy.stop /\ history.first > strategy.stop
      <4>1. p = candle.low \/ p = candle.close
        BY <1>5, <3>1 DEF LiquidationPrice
      <4> QED BY <3>2, <3>4, <3>5, <4>1 DEF Amount
    <3>7. state.realized - state.fees >= -EntryFees
      <4>1. state.realized - state.fees = state.net + state.funding - EntryFees
        BY DEF PrecheckInv, AccountInv, LedgerBalances
      <4>2. EntryFees \in Int
        BY <1>3, FeesType
      <4>3. state.funding \in Int /\ state.realized \in Int /\ state.fees \in Int
        BY <1>3, StateFacts
      <4>4. state.funding >= 0
        BY <2>5 DEF AgainstAtStop
      <4>5. PICK e, f, r : e = EntryFees /\ f = state.funding /\ r = state.realized - state.fees
        OBVIOUS
      <4>6. r = f - e
        BY <3>2, <4>1, <4>2, <4>3, <4>5
      <4>7. r >= -e
        BY <4>2, <4>3, <4>4, <4>5, <4>6
      <4> QED BY <4>5, <4>7
    <3> QED BY <1>3, <1>7, <3>1, <3>2, <3>6, <3>7, GuardFails
  <2>6. StopComesFirst'
    <3>1. StopComesFirst' <=> (AgainstAtStop /\ state.reasons = {"liquidation"} => ViolatesStopGuard(history.first))'
      BY DEF StopComesFirst, AgainstAtStop, Estimated
    <3>2. /\ ViolatesStopGuard(history.first)' <=> ViolatesStopGuard(history.first)
          /\ Estimated' <=> Estimated
          /\ IsLong' <=> IsLong
      BY <1>2, SameGuard, SameEstimate, SameStrategy
    <3>3. AgainstAtStop' => AgainstAtStop
      BY <1>2, <2>3, <3>2 DEF AgainstAtStop
    <3>4. state'.reasons = {"liquidation"} => state.reasons = {}
      BY <2>3, <2>4
    <3> QED BY <2>5, <3>1, <3>2, <3>3, <3>4
  <2>7. LiquidatedIsOver'
    BY <2>2 DEF LiquidatedIsOver
  <2> QED BY <1>4, <2>6, <2>7
<1> QED BY <1>6, <1>7

\* The orders for the next candle.
LEMMA OrdersPrecheck ==
  ASSUME PrecheckInv, NEW STATE equity, NEW STATE used, Orders(equity, used)
  PROVE  BeganWith' /\ LiquidatedIsOver' /\ StopComesFirst'
<1>1. /\ strategy' = strategy /\ state' = state /\ active' = active
      /\ phase' # "funding" \/ index' = index + 1
  BY DEF Orders
<1>2. TypeOK
  BY DEF PrecheckInv, AccountInv
<1>3. history'.first = history.first /\ (history'.adverse => history.adverse)
  <2>1. history \in [first : Amount, adverse : BOOLEAN]
    BY <1>2 DEF TypeOK
  <2>2. CASE history' = history
    BY <2>2
  <2>3. CASE \E adverse : history' = [history EXCEPT !.adverse = adverse] /\ (adverse => history.adverse)
    BY <2>1, <2>3
  <2>4. history' = history
        \/ \E adverse : history' = [history EXCEPT !.adverse = adverse] /\ (adverse => history.adverse)
    BY DEF Orders
  <2> QED BY <2>2, <2>3, <2>4
<1>4. BeganWith'
  BY <1>1, <1>2, BeganKept DEF PrecheckInv
<1>5. StopComesFirst'
  BY <1>1, <1>3, StopFirstKept DEF PrecheckInv
<1>6. LiquidatedIsOver'
  BY <1>1 DEF PrecheckInv, LiquidatedIsOver
<1> QED BY <1>4, <1>5, <1>6

\* A run begins with its base position.
LEMMA InitPrecheck == ASSUME Init PROVE PrecheckInv
<1>1. Inv /\ AccountInv
  BY InitInv, InitAccount
<1>2. BeganWith
  BY DEF Init, BeganWith
<1>3. state.reasons = {}
  BY DEF Init
<1> QED BY <1>1, <1>2, <1>3 DEF PrecheckInv, LiquidatedIsOver, StopComesFirst

\* Every step of the engine.
LEMMA PrecheckStep == ASSUME PrecheckInv, [Next]_vars PROVE PrecheckInv'
<1>1. Held /\ candle \in Candles
  BY TypeHeld DEF PrecheckInv, AccountInv
<1>2. AccountInv'
  BY EngineStep DEF PrecheckInv
<1>3. Inv'
  BY FundingInv, StopInv, PassInv, LiquidationInv, OrdersInv, StutterInv DEF PrecheckInv, Next, Done
<1>4. BeganWith' /\ LiquidatedIsOver' /\ StopComesFirst'
  <2>1. CASE ScheduledFunding(UsedNotional(candle.open)) \/ LateFunding(UsedNotional(candle.close))
    <3>1. UsedNotional(candle.open) \in Int /\ UsedNotional(candle.close) \in Int
      BY <1>1, CandleFacts, ValueType
    <3> QED BY <2>1, <3>1, FundingPrecheck
  <2>2. CASE StopCarried \/ StopOpened \/ OpenPass(EntriesTouched) \/ ClosePass(ExitsTouched)
    BY <2>2, TradingPrecheck
  <2>3. CASE Liquidation(Equity(LiquidationPrice), UsedNotional(LiquidationPrice))
    BY <2>3, LiquidationPrecheck
  <2>4. CASE Orders(Equity(candle.close), UsedNotional(candle.close))
    BY <2>4, OrdersPrecheck
  <2>5. CASE UNCHANGED vars
    <3>1. TypeOK
      BY DEF PrecheckInv, AccountInv
    <3>2. BeganWith'
      BY <2>5, <3>1, BeganKept DEF PrecheckInv
    <3>3. StopComesFirst'
      BY <2>5, StopFirstKept DEF PrecheckInv, vars
    <3>4. LiquidatedIsOver'
      BY <2>5 DEF PrecheckInv, LiquidatedIsOver, vars
    <3> QED BY <3>2, <3>3, <3>4
  <2> QED BY <2>1, <2>2, <2>3, <2>4, <2>5 DEF Next, Done
<1> QED BY <1>2, <1>3, <1>4 DEF PrecheckInv

\* What the page says of every strategy is what becomes of it, in either engine: its prechecks and
\* the service's agree, a limit that is forced is kept, searches are counted alike, the guard on the
\* stop keeps a long grid from liquidation, and the marks are where the run began (PrecheckIsSound).
THEOREM PrecheckSound == (Spec => []PrecheckIsSound) /\ (CompactSpec => []PrecheckIsSound)
<1>1. Init => PrecheckInv
  BY InitPrecheck
<1>2. PrecheckInv /\ [Next]_vars => PrecheckInv'
  BY PrecheckStep
<1>3. PrecheckInv => PrecheckIsSound
  <2> SUFFICES ASSUME PrecheckInv PROVE PrecheckIsSound
    OBVIOUS
  <2>1. TypeOK /\ OrdersApart /\ BeganWith /\ StopComesFirst
    BY DEF PrecheckInv, AccountInv, Inv
  <2>2. strategy \in Strategies /\ history.first \in Amount
    BY <2>1, TypeHeld DEF Held
  <2>3. GuardsAgree /\ LimitIsKept /\ SpacesAgree /\ MarkersAreRight
    BY <2>1, <2>2, GuardsAgreeAlways, LimitAlwaysKept, SpacesAlwaysAgree, MarkersAlwaysRight
  <2> QED BY <2>1, <2>3 DEF PrecheckIsSound
<1>4. Spec => []PrecheckIsSound
  BY <1>1, <1>2, <1>3, PTL DEF Spec
<1>5. CompactInit => Init
  BY DEF CompactInit
<1>6. CompactInv /\ [CompactNext]_<<vars, totals>> => [Next]_vars
  BY CompactStep
<1>7. CompactSpec => []PrecheckIsSound
  BY <1>1, <1>2, <1>3, <1>5, <1>6, CompactAccount, PTL DEF CompactSpec
<1> QED BY <1>4, <1>7
=============================================================================
