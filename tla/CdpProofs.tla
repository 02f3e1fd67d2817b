----------------------------- MODULE CdpProofs -----------------------------
(***************************************************************************)
(* Proofs about collateralised debt and the insurance vault (module Cdp):  *)
(* that every borrowed token is owed, that debts stay covered while the    *)
(* price stands, that nothing is charged twice, that liquidation is        *)
(* justified, and that draws stay within their mandates.                   *)
(***************************************************************************)
EXTENDS Cdp, TLAPS

\* priceVars only names the two prices.
USE DEF priceVars

-----------------------------------------------------------------------------
(***************************************************************************)
(* Arithmetic: products, and divisions that round down.                    *)
(***************************************************************************)
LEMMA MulNat ==
  ASSUME NEW a \in Nat, NEW b \in Nat
  PROVE  a * b \in Nat
OBVIOUS

LEMMA MulMonotone ==
  ASSUME NEW a \in Nat, NEW b \in Nat, NEW c \in Nat, a =< b
  PROVE  a * c =< b * c
OBVIOUS

\* The quotient is the largest number whose product fits.
LEMMA DivFits ==
  ASSUME NEW a \in Nat, NEW b \in Nat \ {0}
  PROVE  /\ a \div b \in Nat
         /\ (a \div b) * b =< a
         /\ a < ((a \div b) + 1) * b
OBVIOUS

LEMMA DivAtLeast ==
  ASSUME NEW a \in Nat, NEW b \in Nat \ {0}, NEW q \in Nat, q * b =< a
  PROVE  q =< a \div b
<1> DEFINE d == a \div b
<1>1. d \in Nat /\ a < (d + 1) * b
  BY DivFits
<1> HIDE DEF d
<1>2. q < d + 1
  <2>1. CASE d + 1 =< q
    <3>1. (d + 1) * b =< q * b
      BY <1>1, <2>1, MulMonotone
    <3> QED
      BY <1>1, <3>1, MulNat
  <2> QED
    BY <1>1, <2>1
<1> QED
  BY <1>1, <1>2 DEF d

LEMMA DivMonotone ==
  ASSUME NEW a \in Nat, NEW b \in Nat, NEW c \in Nat \ {0}, a =< b
  PROVE  a \div c =< b \div c
<1>1. a \div c \in Nat /\ (a \div c) * c =< a
  BY DivFits
<1>2. (a \div c) * c =< b
  BY <1>1, MulNat
<1> QED
  BY <1>1, <1>2, DivAtLeast

LEMMA MulCancel ==
  ASSUME NEW a \in Nat, NEW b \in Nat, NEW c \in Nat \ {0}, a * c =< b * c
  PROVE  a =< b
<1>1. CASE b + 1 =< a
  <2>1. (b + 1) * c =< a * c
    BY <1>1, MulMonotone
  <2>2. (b + 1) * c = b * c + c
    OBVIOUS
  <2> QED
    BY <2>1, <2>2, MulNat
<1> QED
  BY <1>1

\* The smaller of two numbers.
LEMMA MinOfTwo ==
  ASSUME NEW a \in Int, NEW b \in Int
  PROVE  Min({a, b}) = IF a =< b THEN a ELSE b
BY DEF Min

\* What a borrow compares with covers the debt at the ratio.
LEMMA BorrowCovered ==
  ASSUME NEW e \in Nat, NEW v \in Nat, NEW p \in Nat, NEW s \in Nat \ {0}, NEW b \in Nat \ {0},
         NEW m \in Nat \ {0}, e =< (((v * p) \div s) * b) \div m
  PROVE  e * m * s =< v * p * b
<1> DEFINE x == v * p
           q == x \div s
           y == q * b
           k == y \div m
<1>1. x \in Nat
  BY MulNat
<1>2. q \in Nat /\ q * s =< x
  <2> HIDE DEF x
  <2> QED
    BY <1>1, DivFits
<1>3. y \in Nat
  <2> HIDE DEF q
  <2> QED
    BY <1>2, MulNat
<1>4. k \in Nat /\ k * m =< y
  <2> HIDE DEF y
  <2> QED
    BY <1>3, DivFits
<1>5. e =< k
  OBVIOUS
<1> HIDE DEF k
<1>6. e * m =< k * m
  BY <1>4, <1>5, MulMonotone
<1>7. e * m \in Nat /\ k * m \in Nat /\ e * m =< y
  BY <1>3, <1>4, <1>6, MulNat
<1>8. (e * m) * s =< y * s
  <2> HIDE DEF y
  <2> QED
    BY <1>3, <1>7, MulMonotone
<1>9. y * s = (q * s) * b
  <2> HIDE DEF q
  <2> QED
    BY <1>2
<1>10. (q * s) * b =< x * b
  <2> HIDE DEF q, x
  <2>1. q * s \in Nat
    BY <1>2, MulNat
  <2> QED
    BY <1>1, <1>2, <2>1, MulMonotone
<1> DEFINE z == x * b
           w == (e * m) * s
<1>11. z \in Nat /\ w \in Nat /\ y * s \in Nat
  <2> HIDE DEF x, y
  <2> QED
    BY <1>1, <1>3, <1>7, MulNat
<1>12. w =< z
  BY <1>8, <1>9, <1>10, <1>11
<1> QED
  BY <1>12

\* Releasing the share of the principal repaid, rounded down, leaves the rest
\* of the debt covered.
LEMMA RepayCovered ==
  ASSUME NEW d \in Nat \ {0}, NEW f \in Nat, NEW n \in Nat, n =< d, NEW v \in Nat, NEW p \in Nat,
         NEW s \in Nat, NEW b \in Nat, NEW m \in Nat,
         (d + f) * m * s =< v * p * b
  PROVE  (d - n) * m * s =< (v - ((v * n) \div d)) * p * b
<1> DEFINE r == (v * n) \div d
           k == d - n
           w == v - r
           x == m * s
           y == p * b
<1>1. x \in Nat /\ y \in Nat /\ k \in Nat
  BY MulNat
<1>2. r \in Nat /\ r * d =< v * n
  <2>1. v * n \in Nat
    BY MulNat
  <2> QED
    BY <2>1, DivFits
<1> HIDE DEF r
<1>3. r =< v
  <2>1. v * n =< v * d
    <3>1. n * v =< d * v
      BY MulMonotone
    <3> QED
      BY <3>1
  <2>2. r * d =< v * d
    BY <1>2, <2>1, MulNat
  <2> QED
    BY <1>2, <2>2, MulCancel
<1>4. w \in Nat /\ v * k =< w * d
  <2>1. w \in Nat
    BY <1>2, <1>3
  <2>2. w * d = v * d - r * d /\ v * k = v * d - v * n
    BY <1>2
  <2> QED
    BY <1>2, <2>1, <2>2, MulNat
<1>5. (d + f) * x =< v * y
  BY MulNat
<1> HIDE DEF x, y, w, k
<1>6. d * x =< v * y
  <2>1. d * x =< (d + f) * x
    BY <1>1, MulMonotone
  <2>2. d * x \in Nat /\ (d + f) * x \in Nat /\ v * y \in Nat
    BY <1>1, MulNat
  <2> QED
    BY <1>5, <2>1, <2>2
<1>7. (k * x) * d =< (w * y) * d
  <2>1. (d * x) * k =< (v * y) * k
    <3>1. d * x \in Nat /\ v * y \in Nat
      BY <1>1, MulNat
    <3> QED
      BY <1>1, <1>6, <3>1, MulMonotone
  <2>2. (v * k) * y =< (w * d) * y
    <3>1. v * k \in Nat /\ w * d \in Nat
      BY <1>1, <1>4, MulNat
    <3> QED
      BY <1>1, <1>4, <3>1, MulMonotone
  <2>3. (d * x) * k = (k * x) * d /\ (v * y) * k = (v * k) * y /\ (w * d) * y = (w * y) * d
    BY <1>1, <1>4
  <2>4. (k * x) * d \in Nat /\ (v * k) * y \in Nat /\ (w * y) * d \in Nat
    <3>1. k * x \in Nat /\ v * k \in Nat /\ w * y \in Nat
      BY <1>1, <1>4, MulNat
    <3> QED
      BY <1>1, <3>1, MulNat
  <2> QED
    BY <2>1, <2>2, <2>3, <2>4
<1>8. k * x =< w * y
  <2>1. k * x \in Nat /\ w * y \in Nat
    BY <1>1, <1>4, MulNat
  <2> QED
    BY <1>7, <2>1, MulCancel
<1>9. k * m * s = k * x /\ w * p * b = w * y
  BY <1>1, <1>4 DEF x, y
<1> QED
  BY <1>8, <1>9 DEF k, w, r

-----------------------------------------------------------------------------
(***************************************************************************)
(* The inductive invariant of the positions.                               *)
(***************************************************************************)
\* All tokens are in some user's account.
SupplyHeld == supply = Total(balance)

\* A position that was never opened owes nothing.
UnopenedOwesNothing == \A u \in Users : position[u].mint = NoMint => position[u].debt = 0

\* collateral_config.rs bounds the threshold it takes.
ThresholdsBelowPar == \A c \in Collaterals : registered[c].threshold =< BPS

CdpInv ==
  /\ CdpTypeOK
  /\ SupplyHeld
  /\ EveryTokenIsOwed
  /\ UnopenedOwesNothing
  /\ ThresholdsBelowPar
  /\ NoUnbackedDebt

\* What is used of the constants.
LEMMA Constants ==
  /\ IsFiniteSet(Users) /\ NoMint \notin Collaterals
  /\ Amounts \subseteq Nat /\ FeeRates \subseteq Nat /\ PidFees \subseteq Nat
  /\ \A q \in Quotes : q.price \in Nat \ {0} /\ q.pyth \in Nat \ {0}
  /\ SCALE \in Nat \ {0} /\ BPS \in Nat \ {0} /\ YEAR \in Nat \ {0}
  /\ MIN_COLLATERAL_RATIO_BPS \in Nat \ {0} /\ LIQUIDATION_THRESHOLD_BPS \in Nat
  /\ BPS =< LIQUIDATION_THRESHOLD_BPS /\ LIQUIDATION_THRESHOLD_BPS =< MIN_COLLATERAL_RATIO_BPS
  /\ DEFAULT_LIQUIDATION_BONUS_BPS \in Nat
  /\ MaxAge \in Nat /\ MaxFeeBps \in Nat /\ MaxIssued \in Nat
BY CdpAssumption

\* Writing one cell of a table of tables.
LEMMA CellWritten ==
  ASSUME NEW A, NEW B, NEW f \in [A -> [B -> Nat]], NEW a \in A, NEW b \in B, NEW v \in Nat,
         NEW g, g = [f EXCEPT ![a][b] = v]
  PROVE  /\ g \in [A -> [B -> Nat]]
         /\ g[a][b] = v
         /\ \A x \in A, y \in B : (x # a \/ y # b) => g[x][y] = f[x][y]
<1> DEFINE row == [f[a] EXCEPT ![b] = v]
<1>1. row \in [B -> Nat] /\ row[b] = v /\ \A y \in B : y # b => row[y] = f[a][y]
  OBVIOUS
<1>2. g = [f EXCEPT ![a] = row]
  OBVIOUS
<1> HIDE DEF row
<1> QED
  BY <1>1, <1>2

\* Tokens burned leave the account, the supply and nothing else.
LEMMA BurnKeeps ==
  ASSUME CdpInv, NEW u \in Users, NEW n \in Nat, BurnFrom(u, n)
  PROVE  /\ balance' \in [Users -> Nat] /\ supply' \in Nat /\ totalBurned' \in Nat
         /\ totalMinted' = totalMinted /\ totalMinted \in Nat
         /\ supply' = supply - n /\ totalBurned' = totalBurned + n
         /\ SupplyHeld'
<1>1. /\ balance \in [Users -> Nat] /\ supply \in Nat /\ totalBurned \in Nat
      /\ totalMinted \in Nat /\ supply = Total(balance) /\ IsFiniteSet(Users)
  BY Constants DEF CdpInv, CdpTypeOK, SupplyHeld
<1>2. /\ n =< balance[u] /\ balance' = [balance EXCEPT ![u] = balance[u] - n]
      /\ supply' = supply - n /\ totalBurned' = totalBurned + n /\ totalMinted' = totalMinted
  BY DEF BurnFrom
<1>3. balance[u] \in Nat /\ balance[u] - n \in Nat /\ balance[u] =< supply
  BY <1>1, <1>2, TotalNat
<1>4. Total(balance') = Total(balance) + ((balance[u] - n) - balance[u])
  BY <1>1, <1>2, <1>3, TotalExcept
<1>5. balance' \in [Users -> Nat]
  BY <1>1, <1>2, <1>3
<1> QED
  BY <1>1, <1>2, <1>3, <1>4, <1>5 DEF SupplyHeld

\* Tokens minted enter an account and the supply.
LEMMA MintKeeps ==
  ASSUME CdpInv, NEW u \in Users, NEW n \in Nat,
         balance' = [balance EXCEPT ![u] = balance[u] + n], supply' = supply + n
  PROVE  balance' \in [Users -> Nat] /\ supply' \in Nat /\ SupplyHeld'
<1>1. /\ balance \in [Users -> Nat] /\ supply \in Nat
      /\ supply = Total(balance) /\ IsFiniteSet(Users)
  BY Constants DEF CdpInv, CdpTypeOK, SupplyHeld
<1>2. balance[u] \in Nat /\ balance[u] + n \in Nat
  BY <1>1
<1>3. Total(balance') = Total(balance) + ((balance[u] + n) - balance[u])
  BY <1>1, <1>2, TotalExcept
<1>4. balance' \in [Users -> Nat]
  BY <1>1, <1>2
<1> QED
  BY <1>1, <1>2, <1>3, <1>4 DEF SupplyHeld

\* Writing one position moves the principal by the difference.
LEMMA PositionWritten ==
  ASSUME CdpTypeOK, NEW u \in Users, NEW left \in Positions,
         position' = [position EXCEPT ![u] = left]
  PROVE  /\ position' \in [Users -> Positions] /\ position'[u] = left
         /\ \A v \in Users : v # u => position'[v] = position[v]
         /\ Principal \in Nat /\ Principal' \in Nat
         /\ left.debt \in Nat /\ position[u].debt \in Nat
         /\ Principal' = Principal + (left.debt - position[u].debt)
<1>1. position \in [Users -> Positions] /\ IsFiniteSet(Users)
  BY Constants DEF CdpTypeOK
<1>2. /\ position' \in [Users -> Positions] /\ position'[u] = left
      /\ \A v \in Users : v # u => position'[v] = position[v]
  BY <1>1
<1> DEFINE f == [v \in Users |-> position[v].debt]
           g == [v \in Users |-> position'[v].debt]
<1>3. f \in [Users -> Nat] /\ g \in [Users -> Nat]
  BY <1>1, <1>2 DEF Positions
<1>4. /\ \A v \in Users : f[v] \in Int /\ g[v] \in Int
      /\ \A v \in Users : v # u => g[v] = f[v]
      /\ f[u] = position[u].debt /\ g[u] = left.debt
      /\ f[u] \in Nat /\ g[u] \in Nat
  BY <1>2, <1>3
<1>5. Principal = Total(f) /\ Principal' = Total(g)
  BY DEF Principal
<1> HIDE DEF f, g
<1>6. Total(f) \in Nat /\ Total(g) \in Nat
  BY <1>1, <1>3, TotalNat
<1>7. Total(f) = SumOn(f, Users) /\ Total(g) = SumOn(g, Users)
  BY <1>3 DEF Total
<1>8. SumOn(g, Users) = SumOn(f, Users) + (g[u] - f[u])
  BY <1>1, <1>4, SumChange
<1> QED
  BY <1>2, <1>4, <1>5, <1>6, <1>7, <1>8

\* Lowering a running total keeps the configs as they are otherwise.
LEMMA ReleaseKeeps ==
  ASSUME CdpInv, NEW c \in Collaterals, NEW n \in Nat, NEW named \in BOOLEAN,
         Release(c, n, named)
  PROVE  registered' \in [Collaterals -> Configs] /\ ThresholdsBelowPar'
<1>1. registered \in [Collaterals -> Configs] /\ ThresholdsBelowPar
  BY DEF CdpInv, CdpTypeOK
<1>2. CASE named
  <2> DEFINE r == [registered[c] EXCEPT !.deposited = registered[c].deposited - n]
  <2>1. registered[c].deposited - n \in Nat
    BY <1>1, <1>2 DEF Release, Configs
  <2>2. r \in Configs /\ r.threshold = registered[c].threshold
    BY <1>1, <2>1 DEF Configs
  <2>3. registered' = [registered EXCEPT ![c] = r]
    BY <1>2 DEF Release
  <2> HIDE DEF r
  <2> QED
    BY <1>1, <2>2, <2>3 DEF ThresholdsBelowPar
<1>3. CASE ~ named
  BY <1>1, <1>3 DEF Release, ThresholdsBelowPar
<1> QED
  BY <1>2, <1>3

-----------------------------------------------------------------------------
(***************************************************************************)
(* The instructions on a position.                                         *)
(***************************************************************************)
\* What is known of the amounts before a step.
LEMMA CdpTypes ==
  ASSUME CdpInv
  PROVE  /\ price \in Nat \ {0} /\ pythPrice \in Nat \ {0}
         /\ feeBps \in Nat
         /\ balance \in [Users -> Nat] /\ supply \in Nat
         /\ totalMinted \in Nat /\ totalBurned \in Nat /\ issued \in Nat
         /\ wallet \in [Users -> [Collaterals -> Nat]]
         /\ vault \in [Users -> [Collaterals -> Nat]]
         /\ position \in [Users -> Positions]
         /\ registered \in [Collaterals -> Configs]
         /\ shaken \in [Users -> BOOLEAN]
         /\ Principal \in Nat
<1>1. Principal \in Nat
  <2>1. [u \in Users |-> position[u].debt] \in [Users -> Nat]
    BY DEF CdpInv, CdpTypeOK, Positions
  <2> QED
    BY <2>1, Constants, TotalNat DEF Principal
<1>2. price \in Nat \ {0} /\ pythPrice \in Nat \ {0}
  <2>1. [price |-> price, pyth |-> pythPrice] \in Quotes
    BY DEF CdpInv, CdpTypeOK
  <2> QED
    BY <2>1, Constants
<1> QED
  BY <1>1, <1>2, Constants DEF CdpInv, CdpTypeOK

LEMMA PositionFields ==
  ASSUME CdpInv, NEW u \in Users
  PROVE  /\ position[u] \in Positions
         /\ position[u].mint \in Collaterals \cup {NoMint}
         /\ position[u].debt \in Nat /\ position[u].fees \in Nat /\ position[u].age \in 0..MaxAge
         /\ EffectiveDebt(u) = position[u].debt + position[u].fees /\ EffectiveDebt(u) \in Nat
<1>1. position[u] \in Positions
  BY CdpTypes
<1> QED
  BY <1>1 DEF Positions, EffectiveDebt

\* Fees accrued are a natural number.
LEMMA PendingNat ==
  ASSUME CdpInv, NEW u \in Users
  PROVE  PendingFees(u) \in Nat
<1>1. position[u].debt \in Nat /\ position[u].age \in Nat /\ feeBps \in Nat
  BY PositionFields, CdpTypes, Constants
<1>2. position[u].debt * feeBps \in Nat
  BY <1>1, MulNat
<1>3. position[u].debt * feeBps * position[u].age \in Nat
  BY <1>1, <1>2, MulNat
<1>4. BPS * YEAR \in Nat \ {0}
  BY Constants
<1> QED
  BY <1>3, <1>4, DivFits DEF PendingFees

\* A position that is covered stays so while its collateral does not fall, its
\* debt does not rise and the price stands.
LEMMA StaysCovered ==
  ASSUME CdpInv, NEW u \in Users, position'[u].debt =< position[u].debt,
         position'[u].debt \in Nat, position'[u].fees \in Nat,
         position'[u].fees =< position[u].fees, position'[u].mint = position[u].mint,
         shaken'[u] = shaken[u], price' = price,
         \A c \in Collaterals : vault'[u][c] \in Nat /\ vault[u][c] =< vault'[u][c]
  PROVE  (position[u].debt > 0 /\ ~ shaken[u] =>
            EffectiveDebt(u) * MIN_COLLATERAL_RATIO_BPS * SCALE
              =< vault[u][position[u].mint] * price * BPS)'
<1> SUFFICES ASSUME position'[u].debt > 0, ~ shaken'[u]
             PROVE  EffectiveDebt(u)' * MIN_COLLATERAL_RATIO_BPS * SCALE
                      =< vault'[u][position[u].mint] * price * BPS
  OBVIOUS
<1> DEFINE e1 == EffectiveDebt(u)
           e2 == EffectiveDebt(u)'
           m == position[u].mint
           v1 == vault[u][m]
           v2 == vault'[u][m]
           x == MIN_COLLATERAL_RATIO_BPS * SCALE
           y == price * BPS
<1>1. e1 \in Nat /\ e2 \in Nat /\ e2 =< e1
  BY PositionFields DEF EffectiveDebt
<1>2. m \in Collaterals
  BY PositionFields DEF CdpInv, UnopenedOwesNothing
<1>3. v1 \in Nat /\ v2 \in Nat /\ v1 =< v2
  BY <1>2, CdpTypes
<1>4. x \in Nat /\ y \in Nat /\ SCALE \in Nat /\ price \in Nat /\ BPS \in Nat
      /\ MIN_COLLATERAL_RATIO_BPS \in Nat
  BY Constants, CdpTypes, MulNat
<1>5. e1 * MIN_COLLATERAL_RATIO_BPS * SCALE =< v1 * price * BPS
  BY PositionFields DEF CdpInv, NoUnbackedDebt
<1>6. /\ e1 * MIN_COLLATERAL_RATIO_BPS * SCALE = e1 * x
      /\ e2 * MIN_COLLATERAL_RATIO_BPS * SCALE = e2 * x
      /\ v1 * price * BPS = v1 * y /\ v2 * price * BPS = v2 * y
  <2> HIDE DEF e1, e2, v1, v2
  <2> QED
    BY <1>1, <1>3, <1>4
<1> HIDE DEF e1, e2, v1, v2, x, y
<1>7. e2 * x =< e1 * x /\ v1 * y =< v2 * y
  BY <1>1, <1>3, <1>4, MulMonotone
<1>8. e1 * x \in Nat /\ e2 * x \in Nat /\ v1 * y \in Nat /\ v2 * y \in Nat
  BY <1>1, <1>3, <1>4, MulNat
<1>9. e2 * x =< v2 * y
  BY <1>5, <1>6, <1>7, <1>8
<1> QED
  BY <1>6, <1>9 DEF e2, v2, m

\* A deposit only adds.
LEMMA DepositKeeps ==
  ASSUME CdpInv, NEW u \in Users, NEW c \in Collaterals, NEW n \in Amounts, NEW named \in BOOLEAN,
         CdpDepositCollateral(u, c, n, named)
  PROVE  CdpInv'
<1>1. /\ n \in Nat /\ n =< wallet[u][c]
      /\ wallet' = [wallet EXCEPT ![u][c] = wallet[u][c] - n]
      /\ vault' = [vault EXCEPT ![u][c] = vault[u][c] + n]
      /\ UNCHANGED <<priceVars, gates, feeBps, ledgerVars, position, issued, shaken>>
  BY Constants DEF CdpDepositCollateral
<1>2. wallet[u][c] \in Nat /\ vault[u][c] \in Nat
  BY CdpTypes
<1>3. wallet' \in [Users -> [Collaterals -> Nat]]
  <2>1. wallet[u][c] - n \in Nat
    BY <1>1, <1>2
  <2> QED
    BY <1>1, <2>1, CdpTypes, CellWritten
<1>4. /\ vault' \in [Users -> [Collaterals -> Nat]]
      /\ \A v \in Users, d \in Collaterals : vault'[v][d] \in Nat /\ vault[v][d] =< vault'[v][d]
  <2>1. vault[u][c] + n \in Nat
    BY <1>1, <1>2
  <2>2. /\ vault' \in [Users -> [Collaterals -> Nat]]
        /\ vault'[u][c] = vault[u][c] + n
        /\ \A v \in Users, d \in Collaterals : (v # u \/ d # c) => vault'[v][d] = vault[v][d]
    BY <1>1, <2>1, CdpTypes, CellWritten
  <2>3. ASSUME NEW v \in Users, NEW d \in Collaterals
        PROVE  vault'[v][d] \in Nat /\ vault[v][d] =< vault'[v][d]
    <3>1. vault[v][d] \in Nat /\ vault'[v][d] \in Nat
      BY <2>2, CdpTypes
    <3> QED
      BY <1>1, <2>2, <3>1
  <2> QED
    BY <2>2, <2>3
<1>5. registered' \in [Collaterals -> Configs] /\ ThresholdsBelowPar'
  <2>1. CASE named
    <3> DEFINE r == [registered[c] EXCEPT !.deposited = registered[c].deposited + n]
    <3>1. r \in Configs /\ r.threshold = registered[c].threshold
      <4>1. registered[c] \in Configs /\ registered[c].deposited + n \in Nat
        BY <1>1, CdpTypes DEF Configs
      <4> QED
        BY <4>1 DEF Configs
    <3>2. registered' = [registered EXCEPT ![c] = r]
      BY <2>1 DEF CdpDepositCollateral
    <3> HIDE DEF r
    <3> QED
      BY <3>1, <3>2, CdpTypes DEF ThresholdsBelowPar, CdpInv
  <2>2. CASE ~ named
    BY <2>2, CdpTypes DEF CdpDepositCollateral, ThresholdsBelowPar, CdpInv
  <2> QED
    BY <2>1, <2>2
<1>6. CdpTypeOK'
  BY <1>1, <1>3, <1>4, <1>5 DEF CdpInv, CdpTypeOK, ledgerVars
<1>7. SupplyHeld' /\ EveryTokenIsOwed' /\ UnopenedOwesNothing'
  BY <1>1 DEF CdpInv, SupplyHeld, EveryTokenIsOwed, Principal, UnopenedOwesNothing, ledgerVars
<1>8. NoUnbackedDebt'
  <2>1. ASSUME NEW v \in Users
        PROVE  (position[v].debt > 0 /\ ~ shaken[v] =>
                  EffectiveDebt(v) * MIN_COLLATERAL_RATIO_BPS * SCALE
                    =< vault[v][position[v].mint] * price * BPS)'
    BY <1>1, <1>4, PositionFields, StaysCovered
  <2> QED
    BY <2>1 DEF NoUnbackedDebt
<1> QED
  BY <1>5, <1>6, <1>7, <1>8 DEF CdpInv

\* A borrow is compared with the one vault the position is locked to.
LEMMA BorrowKeeps ==
  ASSUME CdpInv, NEW u \in Users, NEW c \in Collaterals, NEW n \in Amounts, CdpBorrowStable(u, c, n)
  PROVE  CdpInv'
<1> DEFINE left == [mint |-> IF position[u].mint = NoMint THEN c ELSE position[u].mint,
                    debt |-> position[u].debt + n,
                    fees |-> position[u].fees + PendingFees(u), age |-> 0]
<1>1. /\ n \in Nat
      /\ balance' = [balance EXCEPT ![u] = balance[u] + n]
      /\ supply' = supply + n /\ totalMinted' = totalMinted + n
      /\ position' = [position EXCEPT ![u] = left]
      /\ shaken' = [shaken EXCEPT ![u] = FALSE]
      /\ UNCHANGED <<priceVars, gates, feeBps, totalBurned, wallet, vault, registered, issued>>
  BY Constants DEF CdpBorrowStable
<1>2. PendingFees(u) \in Nat
  BY PendingNat
<1>3. left.mint = c
  BY Constants, PositionFields DEF CdpBorrowStable, LockedTo
<1>4. /\ left \in Positions /\ left.debt = position[u].debt + n
      /\ left.fees = position[u].fees + PendingFees(u)
  <2>1. /\ position[u].debt + n \in Nat /\ position[u].fees + PendingFees(u) \in Nat
        /\ 0 \in 0..MaxAge
    BY <1>1, <1>2, PositionFields, Constants
  <2> QED
    BY <1>3, <2>1 DEF Positions
<1> HIDE DEF left
<1>5. balance' \in [Users -> Nat] /\ supply' \in Nat /\ SupplyHeld'
  BY <1>1, MintKeeps
<1>6. CdpTypeOK
  BY DEF CdpInv
<1>7. /\ position' \in [Users -> Positions] /\ position'[u] = left
      /\ \A v \in Users : v # u => position'[v] = position[v]
      /\ Principal \in Nat /\ Principal' \in Nat /\ position[u].debt \in Nat
      /\ Principal' = Principal + (left.debt - position[u].debt)
  BY <1>1, <1>4, <1>6, PositionWritten
<1>8. CdpTypeOK'
  BY <1>1, <1>5, <1>6, <1>7, CdpTypes DEF CdpTypeOK
<1>9. EveryTokenIsOwed'
  BY <1>1, <1>4, <1>7, CdpTypes DEF CdpInv, EveryTokenIsOwed
<1>10. UnopenedOwesNothing' /\ ThresholdsBelowPar'
  BY <1>1, <1>3, <1>7, Constants DEF CdpInv, UnopenedOwesNothing, ThresholdsBelowPar
<1>11. NoUnbackedDebt'
  <2>1. ASSUME NEW v \in Users
        PROVE  (position[v].debt > 0 /\ ~ shaken[v] =>
                  EffectiveDebt(v) * MIN_COLLATERAL_RATIO_BPS * SCALE
                    =< vault[v][position[v].mint] * price * BPS)'
    <3>1. CASE v # u
      <4>1. position'[v] = position[v] /\ shaken'[v] = shaken[v]
        BY <1>1, <1>7, <3>1, CdpTypes
      <4>2. \A d \in Collaterals : vault'[v][d] \in Nat /\ vault[v][d] =< vault'[v][d]
        BY <1>1, CdpTypes
      <4> QED
        <5>1. /\ position'[v].debt = position[v].debt /\ position'[v].fees = position[v].fees
              /\ position'[v].mint = position[v].mint
              /\ position[v].debt \in Nat /\ position[v].fees \in Nat
          BY <4>1, PositionFields
        <5>2. position'[v].debt =< position[v].debt /\ position'[v].fees =< position[v].fees
          BY <5>1
        <5> QED
          BY <1>1, <4>1, <4>2, <5>1, <5>2, StaysCovered
    <3>2. CASE v = u
      <4> DEFINE e == EffectiveDebt(u)'
      <4>1. e = EffectiveDebt(u) + PendingFees(u) + n /\ e \in Nat
        BY <1>1, <1>2, <1>4, <1>7, PositionFields DEF EffectiveDebt
      <4>2. e =< (((vault[u][c] * price) \div SCALE) * BPS) \div MIN_COLLATERAL_RATIO_BPS
        BY <4>1 DEF CdpBorrowStable, MaxBorrow, Value
      <4>3. vault[u][c] \in Nat /\ price \in Nat
        BY CdpTypes
      <4> HIDE DEF e
      <4>4. e * MIN_COLLATERAL_RATIO_BPS * SCALE =< vault[u][c] * price * BPS
        BY <4>1, <4>2, <4>3, Constants, BorrowCovered
      <4>5. position'[u].mint = c /\ vault' = vault /\ price' = price
        BY <1>1, <1>3, <1>7
      <4> QED
        BY <3>2, <4>4, <4>5 DEF e
    <3> QED
      BY <3>1, <3>2
  <2> QED
    BY <2>1 DEF NoUnbackedDebt
<1> QED
  BY <1>5, <1>8, <1>9, <1>10, <1>11 DEF CdpInv

\* A repayment releases no more than its share.
LEMMA RepayKeeps ==
  ASSUME CdpInv, NEW u \in Users, NEW c \in Collaterals, NEW n \in Amounts, NEW named \in BOOLEAN,
         CdpRepayStable(u, c, n, named)
  PROVE  CdpInv'
<1> DEFINE r == CollateralToRelease(u, c, n)
           left == [position[u] EXCEPT !.debt = position[u].debt - n, !.fees = 0]
<1>1. /\ n \in Nat /\ n > 0 /\ n =< position[u].debt
      /\ BurnFrom(u, n + position[u].fees)
      /\ r > 0 => Release(c, r, named)
      /\ r = 0 => UNCHANGED registered
      /\ wallet' = [wallet EXCEPT ![u][c] = wallet[u][c] + r]
      /\ vault' = [vault EXCEPT ![u][c] = vault[u][c] - r]
      /\ position' = [position EXCEPT ![u] = left]
      /\ UNCHANGED <<priceVars, gates, feeBps, issued, shaken>>
  <2>1. n \in Nat
    BY Constants
  <2>2. position' = [position EXCEPT ![u] = left]
    BY DEF CdpRepayStable
  <2>3. /\ n > 0 /\ n =< position[u].debt
        /\ BurnFrom(u, n + position[u].fees)
        /\ r > 0 => Release(c, r, named)
        /\ r = 0 => UNCHANGED registered
    BY DEF CdpRepayStable
  <2>4. /\ wallet' = [wallet EXCEPT ![u][c] = wallet[u][c] + r]
        /\ vault' = [vault EXCEPT ![u][c] = vault[u][c] - r]
        /\ UNCHANGED <<priceVars, gates, feeBps, issued, shaken>>
    BY DEF CdpRepayStable
  <2> QED
    BY <2>1, <2>2, <2>3, <2>4
<1>2. position[u].debt \in Nat \ {0} /\ position[u].fees \in Nat
  BY <1>1, PositionFields
<1>3. vault[u][c] \in Nat /\ wallet[u][c] \in Nat /\ price \in Nat
  BY CdpTypes
<1>4. r \in Nat /\ r =< vault[u][c]
  <2>1. vault[u][c] * n \in Nat
    BY <1>1, <1>3, MulNat
  <2>2. r \in Nat /\ r * position[u].debt =< vault[u][c] * n
    BY <1>2, <2>1, DivFits DEF CollateralToRelease
  <2>3. n * vault[u][c] =< position[u].debt * vault[u][c]
    BY <1>1, <1>2, <1>3, MulMonotone
  <2>4. r * position[u].debt =< vault[u][c] * position[u].debt
    <3>1. n * vault[u][c] = vault[u][c] * n
      BY <1>1, <1>3
    <3>2. position[u].debt * vault[u][c] = vault[u][c] * position[u].debt
      BY <1>2, <1>3
    <3>3. r * position[u].debt \in Nat /\ vault[u][c] * position[u].debt \in Nat
      <4> HIDE DEF r
      <4> QED
        BY <1>2, <1>3, <2>2, MulNat
    <3> HIDE DEF r
    <3> QED
      BY <2>1, <2>2, <2>3, <3>1, <3>2, <3>3
  <2> HIDE DEF r
  <2> QED
    BY <1>2, <1>3, <2>2, <2>4, MulCancel
<1>5. /\ left \in Positions /\ left.debt = position[u].debt - n /\ left.fees = 0
      /\ left.mint = position[u].mint
  <2>1. position[u].debt - n \in Nat /\ 0 \in Nat
    BY <1>1, <1>2
  <2> QED
    BY <2>1, PositionFields DEF Positions
<1> HIDE DEF left
<1>6. /\ balance' \in [Users -> Nat] /\ supply' \in Nat /\ totalBurned' \in Nat
      /\ totalMinted' = totalMinted /\ totalMinted \in Nat
      /\ supply' = supply - (n + position[u].fees)
      /\ SupplyHeld'
  <2>1. n + position[u].fees \in Nat
    BY <1>1, <1>2
  <2> QED
    BY <1>1, <2>1, BurnKeeps
<1>7. registered' \in [Collaterals -> Configs] /\ ThresholdsBelowPar'
  <2>1. CASE r > 0
    BY <1>1, <1>4, <2>1, ReleaseKeeps
  <2>2. CASE r = 0
    BY <1>1, <2>2, CdpTypes DEF CdpInv, ThresholdsBelowPar
  <2> QED
    BY <1>4, <2>1, <2>2
<1>8. wallet' \in [Users -> [Collaterals -> Nat]]
  <2>1. wallet[u][c] + r \in Nat
    BY <1>3, <1>4
  <2> QED
    BY <1>1, <2>1, CdpTypes, CellWritten
<1>9. /\ vault' \in [Users -> [Collaterals -> Nat]]
      /\ vault'[u][c] = vault[u][c] - r
      /\ \A v \in Users, d \in Collaterals : (v # u \/ d # c) => vault'[v][d] = vault[v][d]
  <2>1. vault[u][c] - r \in Nat
    BY <1>3, <1>4
  <2> QED
    BY <1>1, <2>1, CdpTypes, CellWritten
<1>10. CdpTypeOK
  BY DEF CdpInv
<1>11. /\ position' \in [Users -> Positions] /\ position'[u] = left
       /\ \A v \in Users : v # u => position'[v] = position[v]
       /\ Principal \in Nat /\ Principal' \in Nat
       /\ Principal' = Principal + (left.debt - position[u].debt)
  BY <1>1, <1>5, <1>10, PositionWritten
<1>12. CdpTypeOK'
  BY <1>1, <1>6, <1>7, <1>8, <1>9, <1>10, <1>11 DEF CdpTypeOK
<1>13. EveryTokenIsOwed'
  BY <1>1, <1>2, <1>5, <1>6, <1>11, CdpTypes DEF CdpInv, EveryTokenIsOwed
<1>14. UnopenedOwesNothing'
  BY <1>1, <1>2, <1>5, <1>11 DEF CdpInv, UnopenedOwesNothing
<1>15. NoUnbackedDebt'
  <2>1. ASSUME NEW v \in Users
        PROVE  (position[v].debt > 0 /\ ~ shaken[v] =>
                  EffectiveDebt(v) * MIN_COLLATERAL_RATIO_BPS * SCALE
                    =< vault[v][position[v].mint] * price * BPS)'
    <3>1. CASE v # u \/ position[u].mint # c
      <4>1. CASE v # u
        <5>1. position'[v] = position[v] /\ shaken'[v] = shaken[v]
          BY <1>1, <1>11, <4>1
        <5>2. \A d \in Collaterals : vault'[v][d] \in Nat /\ vault[v][d] =< vault'[v][d]
          BY <1>9, <4>1, CdpTypes
        <5> QED
          BY <1>1, <5>1, <5>2, PositionFields, StaysCovered
      <4>2. CASE v = u /\ position[u].mint # c
        <5> DEFINE m == position[u].mint
        <5> SUFFICES ASSUME position'[u].debt > 0, ~ shaken'[u]
                     PROVE  EffectiveDebt(u)' * MIN_COLLATERAL_RATIO_BPS * SCALE
                              =< vault'[u][position'[u].mint] * price' * BPS
          BY <4>2
        <5>1. m \in Collaterals /\ position'[u].mint = m
          BY <1>2, <1>5, <1>11, PositionFields DEF CdpInv, UnopenedOwesNothing
        <5>2. vault'[u][m] = vault[u][m] /\ vault[u][m] \in Nat
          BY <1>9, <4>2, <5>1, CdpTypes
        <5>3. EffectiveDebt(u) * MIN_COLLATERAL_RATIO_BPS * SCALE =< vault[u][m] * price * BPS
          BY <1>1, <1>2 DEF CdpInv, NoUnbackedDebt
        <5>4. /\ EffectiveDebt(u)' \in Nat /\ EffectiveDebt(u) \in Nat
              /\ EffectiveDebt(u)' =< EffectiveDebt(u)
          BY <1>1, <1>2, <1>5, <1>11, PositionFields DEF EffectiveDebt
        <5> DEFINE e1 == EffectiveDebt(u)
                   e2 == EffectiveDebt(u)'
                   v1 == vault[u][m]
        <5>5. e2 * MIN_COLLATERAL_RATIO_BPS * SCALE =< e1 * MIN_COLLATERAL_RATIO_BPS * SCALE
          <6> HIDE DEF e1, e2
          <6>1. e2 * MIN_COLLATERAL_RATIO_BPS =< e1 * MIN_COLLATERAL_RATIO_BPS
            BY <5>4, Constants, MulMonotone DEF e1, e2
          <6>2. e2 * MIN_COLLATERAL_RATIO_BPS \in Nat /\ e1 * MIN_COLLATERAL_RATIO_BPS \in Nat
            BY <5>4, Constants, MulNat DEF e1, e2
          <6> QED
            BY <6>1, <6>2, Constants, MulMonotone
        <5>6. /\ e2 * MIN_COLLATERAL_RATIO_BPS * SCALE \in Nat
              /\ e1 * MIN_COLLATERAL_RATIO_BPS * SCALE \in Nat
              /\ v1 * price * BPS \in Nat
          <6>1. /\ e2 * MIN_COLLATERAL_RATIO_BPS \in Nat /\ e1 * MIN_COLLATERAL_RATIO_BPS \in Nat
                /\ v1 * price \in Nat
            BY <1>3, <5>2, <5>4, Constants, MulNat
          <6> QED
            BY <6>1, Constants, MulNat
        <5>7. e2 * MIN_COLLATERAL_RATIO_BPS * SCALE =< v1 * price * BPS
          BY <5>3, <5>5, <5>6
        <5> QED
          BY <1>1, <5>1, <5>2, <5>7
      <4> QED
        BY <3>1, <4>1, <4>2
    <3>2. CASE v = u /\ position[u].mint = c
      <4> SUFFICES ASSUME ~ shaken[u]
                   PROVE  EffectiveDebt(u)' * MIN_COLLATERAL_RATIO_BPS * SCALE
                            =< vault'[u][c] * price * BPS
        BY <1>1, <1>5, <1>11, <3>2
      <4>1. (position[u].debt + position[u].fees) * MIN_COLLATERAL_RATIO_BPS * SCALE
              =< vault[u][c] * price * BPS
        BY <1>1, <1>2, <3>2, PositionFields DEF CdpInv, NoUnbackedDebt
      <4>2. (position[u].debt - n) * MIN_COLLATERAL_RATIO_BPS * SCALE
              =< (vault[u][c] - ((vault[u][c] * n) \div position[u].debt)) * price * BPS
        BY <1>1, <1>2, <1>3, <4>1, Constants, RepayCovered
      <4>3. EffectiveDebt(u)' = position[u].debt - n
        BY <1>1, <1>2, <1>5, <1>11 DEF EffectiveDebt
      <4>4. vault'[u][c] = vault[u][c] - ((vault[u][c] * n) \div position[u].debt)
        BY <1>9 DEF CollateralToRelease
      <4> QED
        BY <4>2, <4>3, <4>4
    <3> QED
      BY <3>1, <3>2
  <2> QED
    BY <2>1 DEF NoUnbackedDebt
<1> QED
  BY <1>6, <1>7, <1>12, <1>13, <1>14, <1>15 DEF CdpInv

-----------------------------------------------------------------------------
(***************************************************************************)
(* Liquidation.                                                            *)
(***************************************************************************)
\* A liquidation that burns at least the principal it forgives, and seizes at
\* most the vault.
LEMMA SeizeKeeps ==
  ASSUME CdpInv, NEW l \in Users, NEW u \in Users, NEW c \in Collaterals,
         NEW burned \in Nat, NEW seized \in Nat, seized =< vault[u][c],
         NEW left \in Positions, left.mint = position[u].mint,
         left.debt =< position[u].debt, position[u].debt - left.debt =< burned,
         Seize(l, u, c, burned, seized, left),
         registered' \in [Collaterals -> Configs], ThresholdsBelowPar'
  PROVE  CdpInv'
<1>1. /\ BurnFrom(l, burned)
      /\ wallet' = [wallet EXCEPT ![l][c] = wallet[l][c] + seized]
      /\ vault' = [vault EXCEPT ![u][c] = vault[u][c] - seized]
      /\ position' = [position EXCEPT ![u] = left]
      /\ shaken' = [shaken EXCEPT ![u] = TRUE]
      /\ UNCHANGED <<priceVars, gates, feeBps, issued>>
  BY DEF Seize
<1>2. vault[u][c] \in Nat /\ wallet[l][c] \in Nat
  BY CdpTypes
<1>3. /\ balance' \in [Users -> Nat] /\ supply' \in Nat /\ totalBurned' \in Nat
      /\ totalMinted' = totalMinted /\ totalMinted \in Nat
      /\ supply' = supply - burned /\ SupplyHeld'
  BY <1>1, BurnKeeps
<1>4. wallet' \in [Users -> [Collaterals -> Nat]]
  <2>1. wallet[l][c] + seized \in Nat
    BY <1>2
  <2> QED
    BY <1>1, <2>1, CdpTypes, CellWritten
<1>5. /\ vault' \in [Users -> [Collaterals -> Nat]]
      /\ \A v \in Users, d \in Collaterals : (v # u \/ d # c) => vault'[v][d] = vault[v][d]
  <2>1. vault[u][c] - seized \in Nat
    BY <1>2
  <2> QED
    BY <1>1, <2>1, CdpTypes, CellWritten
<1>6. CdpTypeOK
  BY DEF CdpInv
<1>7. /\ position' \in [Users -> Positions] /\ position'[u] = left
      /\ \A v \in Users : v # u => position'[v] = position[v]
      /\ Principal \in Nat /\ Principal' \in Nat /\ left.debt \in Nat /\ position[u].debt \in Nat
      /\ Principal' = Principal + (left.debt - position[u].debt)
  BY <1>1, <1>6, PositionWritten
<1>8. shaken' \in [Users -> BOOLEAN] /\ shaken'[u] /\ \A v \in Users : v # u => shaken'[v] = shaken[v]
  BY <1>1, CdpTypes
<1>9. CdpTypeOK'
  BY <1>1, <1>3, <1>4, <1>5, <1>6, <1>7, <1>8 DEF CdpTypeOK
<1>10. EveryTokenIsOwed'
  BY <1>1, <1>3, <1>7, CdpTypes DEF CdpInv, EveryTokenIsOwed
<1>11. UnopenedOwesNothing'
  BY <1>7 DEF CdpInv, UnopenedOwesNothing
<1>12. NoUnbackedDebt'
  <2>1. ASSUME NEW v \in Users
        PROVE  (position[v].debt > 0 /\ ~ shaken[v] =>
                  EffectiveDebt(v) * MIN_COLLATERAL_RATIO_BPS * SCALE
                    =< vault[v][position[v].mint] * price * BPS)'
    <3>1. CASE v = u
      BY <1>8, <3>1
    <3>2. CASE v # u
      <4>1. /\ position'[v].debt = position[v].debt /\ position'[v].fees = position[v].fees
            /\ position'[v].mint = position[v].mint /\ shaken'[v] = shaken[v]
            /\ position[v].debt \in Nat /\ position[v].fees \in Nat
        BY <1>7, <1>8, <3>2, PositionFields
      <4>2. position'[v].debt =< position[v].debt /\ position'[v].fees =< position[v].fees
        BY <4>1
      <4>3. \A d \in Collaterals : vault'[v][d] \in Nat /\ vault[v][d] =< vault'[v][d]
        BY <1>5, <3>2, CdpTypes
      <4> QED
        BY <1>1, <4>1, <4>2, <4>3, StaysCovered
    <3> QED
      BY <3>1, <3>2
  <2> QED
    BY <2>1 DEF NoUnbackedDebt
<1> QED
  BY <1>3, <1>9, <1>10, <1>11, <1>12 DEF CdpInv

\* What cdp_liquidate seizes is in the vault.
LEMMA SeizedV1Fits ==
  ASSUME CdpInv, NEW u \in Users, NEW c \in Collaterals, NEW repay \in Nat, NEW bonus \in Nat
  PROVE  SeizedV1(u, c, repay, bonus) \in Nat /\ SeizedV1(u, c, repay, bonus) =< vault[u][c]
<1> DEFINE q == ((repay * (BPS + bonus) * SCALE) \div price) \div BPS
<1>1. vault[u][c] \in Nat
  BY CdpTypes
<1>2. q \in Nat
  <2>1. repay * (BPS + bonus) \in Nat
    <3>1. BPS + bonus \in Nat
      BY Constants
    <3> QED
      BY <3>1, MulNat
  <2>2. repay * (BPS + bonus) * SCALE \in Nat
    BY <2>1, Constants, MulNat
  <2>3. (repay * (BPS + bonus) * SCALE) \div price \in Nat
    BY <2>2, CdpTypes, DivFits
  <2> QED
    BY <2>3, Constants, DivFits
<1>3. SeizedV1(u, c, repay, bonus) = Min({q, vault[u][c]})
  BY DEF SeizedV1
<1> HIDE DEF q
<1>4. Min({q, vault[u][c]}) = IF q =< vault[u][c] THEN q ELSE vault[u][c]
  BY <1>1, <1>2, MinOfTwo
<1> QED
  BY <1>1, <1>2, <1>3, <1>4

\* What cdp_liquidate_v2 seizes is in the vault.
LEMMA SeizedV2Fits ==
  ASSUME CdpInv, NEW u \in Users, NEW c \in Collaterals, NEW repay \in Nat
  PROVE  SeizedV2(u, c, repay) \in Nat /\ SeizedV2(u, c, repay) =< vault[u][c]
<1> DEFINE q == (((repay * (BPS + registered[c].bonus)) \div BPS) * SCALE) \div pythPrice
<1>1. vault[u][c] \in Nat
  BY CdpTypes
<1>2. q \in Nat
  <2>1. repay * (BPS + registered[c].bonus) \in Nat
    <3>1. BPS + registered[c].bonus \in Nat
      BY Constants, CdpTypes DEF Configs
    <3> QED
      BY <3>1, MulNat
  <2>2. (repay * (BPS + registered[c].bonus)) \div BPS \in Nat
    BY <2>1, Constants, DivFits
  <2>3. ((repay * (BPS + registered[c].bonus)) \div BPS) * SCALE \in Nat
    BY <2>2, Constants, MulNat
  <2> QED
    BY <2>3, CdpTypes, DivFits
<1>3. SeizedV2(u, c, repay) = IF repay = EffectiveDebt(u) THEN vault[u][c]
                                                          ELSE Min({q, vault[u][c]})
  BY DEF SeizedV2
<1> HIDE DEF q
<1>4. Min({q, vault[u][c]}) = IF q =< vault[u][c] THEN q ELSE vault[u][c]
  BY <1>1, <1>2, MinOfTwo
<1> QED
  BY <1>1, <1>2, <1>3, <1>4

LEMMA LiquidateFullKeeps ==
  ASSUME CdpInv, NEW l \in Users, NEW u \in Users, NEW c \in Collaterals, NEW named \in BOOLEAN,
         CdpLiquidateFull(l, u, c, named)
  PROVE  CdpInv'
<1> DEFINE left == [position[u] EXCEPT !.debt = 0, !.fees = 0]
<1>1. Release(c, vault[u][c], named) /\ Seize(l, u, c, EffectiveDebt(u), vault[u][c], left)
  BY DEF CdpLiquidateFull
<1>2. left \in Positions /\ left.debt = 0 /\ left.mint = position[u].mint
  BY PositionFields DEF Positions
<1> HIDE DEF left
<1>3. vault[u][c] \in Nat
  BY CdpTypes
<1>4. registered' \in [Collaterals -> Configs] /\ ThresholdsBelowPar'
  BY <1>1, <1>3, ReleaseKeeps
<1>5. /\ EffectiveDebt(u) \in Nat /\ left.debt =< position[u].debt
      /\ position[u].debt - left.debt =< EffectiveDebt(u)
      /\ vault[u][c] =< vault[u][c]
  BY <1>2, <1>3, PositionFields
<1> QED
  BY <1>1, <1>2, <1>3, <1>4, <1>5, SeizeKeeps

LEMMA LiquidatePartialKeeps ==
  ASSUME CdpInv, NEW l \in Users, NEW u \in Users, NEW c \in Collaterals, NEW n \in Amounts,
         NEW named \in BOOLEAN, CdpLiquidatePartial(l, u, c, n, named)
  PROVE  CdpInv'
<1> DEFINE seized == SeizedV1(u, c, n, Bonus(c, named))
           left == LeftV1(u, n)
<1>1. Release(c, seized, named) /\ Seize(l, u, c, n, seized, left) /\ n < position[u].debt
  BY DEF CdpLiquidatePartial
<1>2. n \in Nat /\ Bonus(c, named) \in Nat
  BY Constants, CdpTypes DEF Bonus, Configs
<1>3. seized \in Nat /\ seized =< vault[u][c]
  BY <1>2, SeizedV1Fits
<1>4. /\ left \in Positions /\ left.debt = position[u].debt - n
      /\ left.mint = position[u].mint
  <2>1. position[u].debt - n \in Nat
    BY <1>1, <1>2, PositionFields
  <2> QED
    BY <2>1, PositionFields DEF Positions, LeftV1
<1> HIDE DEF left, seized
<1>5. registered' \in [Collaterals -> Configs] /\ ThresholdsBelowPar'
  BY <1>1, <1>3, ReleaseKeeps
<1>6. left.debt =< position[u].debt /\ position[u].debt - left.debt =< n
  BY <1>1, <1>2, <1>4, PositionFields
<1> QED
  BY <1>1, <1>2, <1>3, <1>4, <1>5, <1>6, SeizeKeeps

\* The amount cdp_liquidate_v2 settles on.
Settled(u, n) == IF n = 0 THEN EffectiveDebt(u) ELSE Min({n, EffectiveDebt(u)})

LEMMA SettledFits ==
  ASSUME CdpInv, NEW u \in Users, NEW n \in Nat
  PROVE  Settled(u, n) \in Nat /\ Settled(u, n) =< EffectiveDebt(u)
<1>1. EffectiveDebt(u) \in Nat
  BY PositionFields
<1>2. Min({n, EffectiveDebt(u)}) = IF n =< EffectiveDebt(u) THEN n ELSE EffectiveDebt(u)
  BY <1>1, MinOfTwo
<1> QED
  BY <1>1, <1>2 DEF Settled

LEMMA LeftV2Fits ==
  ASSUME CdpInv, NEW u \in Users, NEW repay \in Nat, repay =< EffectiveDebt(u)
  PROVE  /\ LeftV2(u, repay) \in Positions /\ LeftV2(u, repay).mint = position[u].mint
         /\ LeftV2(u, repay).debt =< position[u].debt
         /\ position[u].debt - LeftV2(u, repay).debt =< repay
         /\ IF repay >= position[u].debt
              THEN LeftV2(u, repay).debt = 0 /\ LeftV2(u, repay).fees = 0
              ELSE /\ LeftV2(u, repay).debt = position[u].debt - repay
                   /\ LeftV2(u, repay).fees = position[u].fees
         /\ LeftV2(u, repay).age = position[u].age
<1>1. CASE repay >= position[u].debt
  <2>1. LeftV2(u, repay) = [position[u] EXCEPT !.debt = 0, !.fees = 0]
    BY <1>1 DEF LeftV2
  <2>2. /\ LeftV2(u, repay) \in Positions /\ LeftV2(u, repay).mint = position[u].mint
        /\ LeftV2(u, repay).debt = 0 /\ LeftV2(u, repay).fees = 0
        /\ LeftV2(u, repay).age = position[u].age
    <3> DEFINE p == position[u]
               e == [p EXCEPT !.debt = 0, !.fees = 0]
    <3>1. p \in Positions
      BY PositionFields
    <3> HIDE DEF p
    <3>2. e \in Positions /\ e.mint = p.mint /\ e.debt = 0 /\ e.fees = 0 /\ e.age = p.age
      BY <3>1 DEF Positions
    <3> QED
      BY <2>1, <3>2 DEF p
  <2> QED
    BY <1>1, <2>2, PositionFields
<1>2. CASE ~ (repay >= position[u].debt)
  <2>1. LeftV2(u, repay) = [position[u] EXCEPT !.debt = position[u].debt - repay]
    BY <1>2 DEF LeftV2
  <2>2. position[u].debt - repay \in Nat
    BY <1>2, PositionFields
  <2>3. /\ LeftV2(u, repay) \in Positions /\ LeftV2(u, repay).mint = position[u].mint
        /\ LeftV2(u, repay).debt = position[u].debt - repay
        /\ LeftV2(u, repay).fees = position[u].fees
        /\ LeftV2(u, repay).age = position[u].age
    BY <2>1, <2>2, PositionFields DEF Positions
  <2> QED
    BY <1>2, <2>2, <2>3, PositionFields
<1> QED
  BY <1>1, <1>2

LEMMA LiquidateV2Keeps ==
  ASSUME CdpInv, NEW l \in Users, NEW u \in Users, NEW c \in Collaterals,
         NEW n \in Amounts \cup {0}, CdpLiquidateV2(l, u, c, n)
  PROVE  CdpInv'
<1> DEFINE repay == Settled(u, n)
           seized == SeizedV2(u, c, repay)
           left == LeftV2(u, repay)
<1>1. Release(c, seized, TRUE) /\ Seize(l, u, c, repay, seized, left)
  BY DEF CdpLiquidateV2, Settled
<1>2. repay \in Nat /\ repay =< EffectiveDebt(u)
  BY Constants, SettledFits
<1>3. seized \in Nat /\ seized =< vault[u][c]
  <2> HIDE DEF repay
  <2> QED
    BY <1>2, SeizedV2Fits
<1>4. /\ left \in Positions /\ left.mint = position[u].mint
      /\ left.debt =< position[u].debt /\ position[u].debt - left.debt =< repay
  <2> HIDE DEF repay
  <2> QED
    BY <1>2, LeftV2Fits
<1> HIDE DEF left, seized, repay
<1>5. registered' \in [Collaterals -> Configs] /\ ThresholdsBelowPar'
  BY <1>1, <1>3, ReleaseKeeps
<1> QED
  BY <1>1, <1>2, <1>3, <1>4, <1>5, SeizeKeeps

-----------------------------------------------------------------------------
(***************************************************************************)
(* Fees, parameters and the world.                                         *)
(***************************************************************************)
\* A step that leaves the vaults and the price alone, and no position with more
\* debt, keeps the positions covered.
LEMMA NoneWeaker ==
  ASSUME CdpInv, UNCHANGED <<vault, price, shaken>>,
         \A u \in Users : /\ position'[u].debt = position[u].debt
                          /\ position'[u].fees \in Nat /\ position'[u].fees =< position[u].fees
                          /\ position'[u].mint = position[u].mint
  PROVE  NoUnbackedDebt'
<1>1. ASSUME NEW u \in Users
      PROVE  (position[u].debt > 0 /\ ~ shaken[u] =>
                EffectiveDebt(u) * MIN_COLLATERAL_RATIO_BPS * SCALE
                  =< vault[u][position[u].mint] * price * BPS)'
  <2>1. position'[u].debt \in Nat /\ position'[u].debt =< position[u].debt
    BY PositionFields
  <2>2. \A c \in Collaterals : vault'[u][c] \in Nat /\ vault[u][c] =< vault'[u][c]
    BY CdpTypes
  <2> QED
    BY <2>1, <2>2, StaysCovered
<1> QED
  BY <1>1 DEF NoUnbackedDebt

\* Collecting burns what it takes off the fees.
LEMMA CollectKeeps ==
  ASSUME CdpInv, NEW u \in Users, CollectStabilityFee(u)
  PROVE  CdpInv'
<1> DEFINE left == FeesCollected(u)
           toBurn == position[u].fees + PendingFees(u)
<1>1. /\ BurnFrom(u, toBurn) /\ position' = [position EXCEPT ![u] = left]
      /\ UNCHANGED <<priceVars, gates, feeBps, wallet, vault, registered, issued, shaken>>
  BY DEF CollectStabilityFee
<1>2. toBurn \in Nat
  BY PositionFields, PendingNat
<1>3. /\ left \in Positions /\ left.debt = position[u].debt /\ left.fees = 0
      /\ left.mint = position[u].mint
  <2> DEFINE p == position[u]
             e == [p EXCEPT !.fees = 0, !.age = 0]
  <2>1. p \in Positions /\ 0 \in 0..MaxAge
    BY PositionFields, Constants
  <2> HIDE DEF p
  <2>2. e \in Positions /\ e.debt = p.debt /\ e.fees = 0 /\ e.mint = p.mint
    BY <2>1 DEF Positions
  <2> QED
    BY <2>2 DEF p, FeesCollected
<1> HIDE DEF left, toBurn
<1>4. /\ balance' \in [Users -> Nat] /\ supply' \in Nat /\ totalBurned' \in Nat
      /\ totalMinted' = totalMinted /\ totalMinted \in Nat
      /\ supply' = supply - toBurn /\ SupplyHeld'
  BY <1>1, <1>2, BurnKeeps
<1>5. CdpTypeOK
  BY DEF CdpInv
<1>6. /\ position' \in [Users -> Positions] /\ position'[u] = left
      /\ \A v \in Users : v # u => position'[v] = position[v]
      /\ Principal \in Nat /\ Principal' \in Nat /\ position[u].debt \in Nat
      /\ Principal' = Principal + (left.debt - position[u].debt)
  BY <1>1, <1>3, <1>5, PositionWritten
<1>7. CdpTypeOK'
  BY <1>1, <1>4, <1>5, <1>6 DEF CdpTypeOK
<1>8. EveryTokenIsOwed'
  BY <1>1, <1>2, <1>3, <1>4, <1>6, CdpTypes DEF CdpInv, EveryTokenIsOwed
<1>9. UnopenedOwesNothing' /\ ThresholdsBelowPar'
  BY <1>1, <1>3, <1>6 DEF CdpInv, UnopenedOwesNothing, ThresholdsBelowPar
<1>10. NoUnbackedDebt'
  <2>1. ASSUME NEW v \in Users
        PROVE  /\ position'[v].debt = position[v].debt
               /\ position'[v].fees \in Nat /\ position'[v].fees =< position[v].fees
               /\ position'[v].mint = position[v].mint
    BY <1>3, <1>6, PositionFields
  <2> QED
    BY <1>1, <2>1, NoneWeaker
<1> QED
  BY <1>4, <1>7, <1>8, <1>9, <1>10 DEF CdpInv

\* A collateral's parameters move no amount; its threshold stays below par.
LEMMA ConfigKeeps ==
  ASSUME CdpInv, NEW c \in Collaterals, NEW p \in CollateralParams,
         RegisterCollateral(c, p) \/ UpdateCollateralConfig(c, p)
  PROVE  CdpInv'
<1>1. PICK n \in Nat : registered' = [registered EXCEPT ![c] = ConfigWith(p, n)]
  <2>1. CASE RegisterCollateral(c, p)
    BY <2>1 DEF RegisterCollateral
  <2>2. CASE UpdateCollateralConfig(c, p)
    <3>1. registered[c].deposited \in Nat
      BY CdpTypes DEF Configs
    <3> QED
      BY <2>2, <3>1 DEF UpdateCollateralConfig
  <2> QED
    BY <2>1, <2>2
<1>2. /\ ValidParams(p)
      /\ UNCHANGED <<priceVars, gates, feeBps, ledgerVars, wallet, vault, position, issued, shaken>>
  BY DEF RegisterCollateral, UpdateCollateralConfig
<1>3. ConfigWith(p, n) \in Configs /\ ConfigWith(p, n).threshold =< BPS
  BY <1>2, CdpAssumption DEF ConfigWith, Configs, ValidParams
<1>4. registered' \in [Collaterals -> Configs] /\ ThresholdsBelowPar'
  BY <1>1, <1>3, CdpTypes DEF CdpInv, ThresholdsBelowPar
<1>5. CdpTypeOK'
  BY <1>2, <1>4 DEF CdpInv, CdpTypeOK, ledgerVars
<1> QED
  BY <1>2, <1>4, <1>5
     DEF CdpInv, SupplyHeld, EveryTokenIsOwed, Principal, UnopenedOwesNothing, NoUnbackedDebt,
         EffectiveDebt, ledgerVars

\* The price falling shakes every position with debt; the price rising covers
\* more.
LEMMA PriceKeeps ==
  ASSUME CdpInv, PriceMoves
  PROVE  CdpInv'
<1>1. /\ price' \in Nat /\ [price |-> price, pyth |-> pythPrice]' \in Quotes
      /\ shaken' = [u \in Users |-> shaken[u] \/ (position[u].debt > 0 /\ price' < price)]
      /\ UNCHANGED <<gates, feeBps, ledgerVars, wallet, vault, position, registered, issued>>
  <2>1. PICK q \in Quotes : price' = q.price /\ pythPrice' = q.pyth
    BY DEF PriceMoves
  <2>2. q \in [price : Nat \ {0}, pyth : Nat \ {0}]
    BY CdpAssumption
  <2>3. [price |-> price, pyth |-> pythPrice]' = q
    BY <2>1, <2>2
  <2> QED
    BY <2>1, <2>2, <2>3 DEF PriceMoves
<1>2. CdpTypeOK'
  BY <1>1 DEF CdpInv, CdpTypeOK, ledgerVars
<1>3. NoUnbackedDebt'
  <2> SUFFICES ASSUME NEW u \in Users, position[u].debt > 0, ~ shaken'[u]
               PROVE  EffectiveDebt(u) * MIN_COLLATERAL_RATIO_BPS * SCALE
                        =< vault[u][position[u].mint] * price' * BPS
    BY <1>1 DEF NoUnbackedDebt, EffectiveDebt
  <2>1. ~ shaken[u] /\ ~ (price' < price)
    BY <1>1
  <2>2. price \in Nat /\ price' \in Nat /\ price =< price'
    BY <1>1, <2>1, CdpTypes, Constants
  <2> DEFINE v == vault[u][position[u].mint]
             e == EffectiveDebt(u)
  <2>3. v \in Nat /\ e \in Nat
    <3>1. position[u].mint \in Collaterals
      BY PositionFields DEF CdpInv, UnopenedOwesNothing
    <3> QED
      BY <3>1, CdpTypes, PositionFields
  <2>4. e * MIN_COLLATERAL_RATIO_BPS * SCALE =< v * price * BPS
    BY <2>1 DEF CdpInv, NoUnbackedDebt
  <2> HIDE DEF v, e
  <2>5. v * price * BPS =< v * price' * BPS
    <3>1. price * v =< price' * v
      BY <2>2, <2>3, MulMonotone
    <3>2. price * v = v * price /\ price' * v = v * price'
      BY <2>2, <2>3
    <3>3. v * price =< v * price' /\ v * price \in Nat /\ v * price' \in Nat
      BY <2>2, <2>3, <3>1, <3>2, MulNat
    <3> QED
      BY <3>3, Constants, MulMonotone
  <2>6. /\ e * MIN_COLLATERAL_RATIO_BPS * SCALE \in Nat
        /\ v * price * BPS \in Nat /\ v * price' * BPS \in Nat
    <3>1. e * MIN_COLLATERAL_RATIO_BPS \in Nat /\ v * price \in Nat /\ v * price' \in Nat
      BY <2>2, <2>3, Constants, MulNat
    <3> QED
      BY <3>1, Constants, MulNat
  <2>7. e * MIN_COLLATERAL_RATIO_BPS * SCALE =< v * price' * BPS
    BY <2>4, <2>5, <2>6
  <2> QED
    BY <2>7 DEF e, v
<1> QED
  BY <1>1, <1>2, <1>3
     DEF CdpInv, SupplyHeld, EveryTokenIsOwed, Principal, UnopenedOwesNothing, ThresholdsBelowPar,
         ledgerVars

\* A second passes: only ages move.
LEMMA SecondKeeps ==
  ASSUME CdpInv, SecondPasses
  PROVE  CdpInv'
<1>1. /\ UNCHANGED <<priceVars, gates, feeBps, ledgerVars, wallet, vault, registered, issued,
                     shaken>>
      /\ \A u \in Users : position[u].age < MaxAge
  BY DEF SecondPasses
<1>2. ASSUME NEW u \in Users
      PROVE  /\ position'[u] \in Positions /\ position'[u].debt = position[u].debt
             /\ position'[u].fees = position[u].fees /\ position'[u].mint = position[u].mint
  <2> DEFINE p == position[u]
             e == [p EXCEPT !.age = p.age + 1]
  <2>1. p \in Positions /\ p.age + 1 \in 0..MaxAge
    BY <1>1, PositionFields, Constants
  <2>2. position'[u] = IF p.mint = NoMint THEN p ELSE e
    BY DEF SecondPasses
  <2> HIDE DEF p
  <2>3. e \in Positions /\ e.debt = p.debt /\ e.fees = p.fees /\ e.mint = p.mint
    BY <2>1 DEF Positions
  <2> HIDE DEF e
  <2> QED
    BY <2>1, <2>2, <2>3 DEF p
<1>3. position' \in [Users -> Positions]
  <2>1. position' = [u \in Users |-> position'[u]]
    BY DEF SecondPasses
  <2> QED
    BY <1>2, <2>1
<1>4. CdpTypeOK'
  BY <1>1, <1>3 DEF CdpInv, CdpTypeOK, ledgerVars
<1>5. Principal' = Principal
  <2>1. [u \in Users |-> position'[u].debt] = [u \in Users |-> position[u].debt]
    BY <1>2
  <2> QED
    BY <2>1 DEF Principal
<1>6. NoUnbackedDebt'
  <2>1. ASSUME NEW v \in Users
        PROVE  /\ position'[v].debt = position[v].debt
               /\ position'[v].fees \in Nat /\ position'[v].fees =< position[v].fees
               /\ position'[v].mint = position[v].mint
    BY <1>2, PositionFields
  <2> QED
    BY <1>1, <2>1, NoneWeaker
<1> QED
  BY <1>1, <1>2, <1>4, <1>5, <1>6
     DEF CdpInv, SupplyHeld, EveryTokenIsOwed, UnopenedOwesNothing, ThresholdsBelowPar, ledgerVars

\* Tokens sent stay in some account.
LEMMA SendKeeps ==
  ASSUME CdpInv, NEW u \in Users, NEW v \in Users, NEW n \in Amounts, Send(u, v, n)
  PROVE  CdpInv'
<1>1. /\ u # v /\ n =< balance[u] /\ n \in Nat
      /\ balance' = [balance EXCEPT ![u] = balance[u] - n, ![v] = balance[v] + n]
      /\ UNCHANGED <<priceVars, gates, feeBps, supply, totalMinted, totalBurned, wallet, vault,
                     position, registered, issued, shaken>>
  BY Constants DEF Send
<1> DEFINE f == [balance EXCEPT ![u] = balance[u] - n]
<1>2. /\ balance[u] \in Nat /\ balance[v] \in Nat
      /\ balance[u] - n \in Nat /\ balance[v] + n \in Nat
      /\ balance \in [Users -> Nat] /\ IsFiniteSet(Users)
  BY <1>1, CdpTypes, Constants
<1>3. f \in [Users -> Nat] /\ f[v] = balance[v]
  BY <1>1, <1>2, CdpTypes
<1>4. Total(f) = Total(balance) + ((balance[u] - n) - balance[u])
  BY <1>2, TotalExcept
<1>5. balance' = [f EXCEPT ![v] = balance[v] + n]
  BY <1>1
<1> HIDE DEF f
<1>6. Total(balance') = Total(f) + ((balance[v] + n) - f[v]) /\ balance' \in [Users -> Nat]
  BY <1>2, <1>3, <1>5, TotalExcept
<1>7. SupplyHeld'
  BY <1>1, <1>2, <1>3, <1>4, <1>6, CdpTypes DEF CdpInv, SupplyHeld
<1>8. CdpTypeOK'
  BY <1>1, <1>6 DEF CdpInv, CdpTypeOK
<1> QED
  BY <1>1, <1>7, <1>8
     DEF CdpInv, EveryTokenIsOwed, Principal, UnopenedOwesNothing, ThresholdsBelowPar,
         NoUnbackedDebt, EffectiveDebt

\* Tokens minters mint are issued.
LEMMA IssueKeeps ==
  ASSUME CdpInv, NEW u \in Users, NEW n \in Amounts, Issue(u, n)
  PROVE  CdpInv'
<1>1. /\ n \in Nat /\ balance' = [balance EXCEPT ![u] = balance[u] + n]
      /\ supply' = supply + n /\ totalMinted' = totalMinted + n /\ issued' = issued + n
      /\ UNCHANGED <<priceVars, gates, feeBps, totalBurned, wallet, vault, position, registered,
                     shaken>>
  BY Constants DEF Issue
<1>2. balance' \in [Users -> Nat] /\ supply' \in Nat /\ SupplyHeld'
  BY <1>1, MintKeeps
<1>3. CdpTypeOK'
  BY <1>1, <1>2, CdpTypes DEF CdpInv, CdpTypeOK
<1>4. EveryTokenIsOwed'
  <2>1. Principal' = Principal
    BY <1>1 DEF Principal
  <2> QED
    BY <1>1, <2>1, CdpTypes DEF CdpInv, EveryTokenIsOwed
<1> QED
  BY <1>1, <1>2, <1>3, <1>4
     DEF CdpInv, UnopenedOwesNothing, ThresholdsBelowPar, NoUnbackedDebt, EffectiveDebt

\* Every step of the positions.
LEMMA CdpKeeps ==
  ASSUME CdpInv, CdpNext
  PROVE  CdpInv'
<1>1. CASE PositionNext
  BY <1>1, DepositKeeps, RepayKeeps, BorrowKeeps DEF PositionNext
<1>2. CASE LiquidationNext
  BY <1>2, LiquidateFullKeeps, LiquidatePartialKeeps, LiquidateV2Keeps DEF LiquidationNext
<1>3. CASE ParameterNext
  <2>1. ASSUME NEW bps \in FeeRates, SetStabilityFee(bps)
        PROVE  CdpInv'
    <3>1. /\ feeBps' \in Nat
          /\ UNCHANGED <<priceVars, gates, ledgerVars, wallet, vault, position, registered, issued,
                         shaken>>
      BY <2>1, Constants DEF SetStabilityFee
    <3> QED
      BY <3>1
         DEF CdpInv, CdpTypeOK, SupplyHeld, EveryTokenIsOwed, Principal, UnopenedOwesNothing,
             ThresholdsBelowPar, NoUnbackedDebt, EffectiveDebt, ledgerVars
  <2>2. ASSUME NEW bps \in PidFees, UpdateStabilityFeePid(bps)
        PROVE  CdpInv'
    <3>1. /\ feeBps' \in Nat
          /\ UNCHANGED <<priceVars, gates, ledgerVars, wallet, vault, position, registered,
                         issued, shaken>>
      BY <2>2, Constants DEF UpdateStabilityFeePid
    <3> QED
      BY <3>1
         DEF CdpInv, CdpTypeOK, SupplyHeld, EveryTokenIsOwed, Principal, UnopenedOwesNothing,
             ThresholdsBelowPar, NoUnbackedDebt, EffectiveDebt, priceVars, ledgerVars
  <2> QED
    BY <1>3, <2>1, <2>2, ConfigKeeps, CollectKeeps DEF ParameterNext
<1>4. CASE GateMoves
  <2>1. /\ gates' \subseteq {"paused", "breaker"}
        /\ UNCHANGED <<priceVars, feeBps, ledgerVars, wallet, vault, position, registered, issued,
                       shaken>>
    BY <1>4, CdpAssumption DEF GateMoves
  <2> QED
    BY <2>1
       DEF CdpInv, CdpTypeOK, SupplyHeld, EveryTokenIsOwed, Principal, UnopenedOwesNothing,
           ThresholdsBelowPar, NoUnbackedDebt, EffectiveDebt, ledgerVars
<1> QED
  BY <1>1, <1>2, <1>3, <1>4, PriceKeeps, SecondKeeps, SendKeeps DEF CdpNext

-----------------------------------------------------------------------------
(***************************************************************************)
(* The insurance vault.                                                    *)
(***************************************************************************)
Consumed == [i \in Mandates |-> mandate[i].consumed]
Approved == [i \in Mandates |-> mandate[i].amount]

\* Each draw under a committee is on the record of one executed proposal.
DrawsRecorded ==
  /\ daoDrawn = Total(Consumed)
  /\ \A i \in Mandates : /\ mandate[i].consumed =< mandate[i].amount
                         /\ ~ mandate[i].executed => mandate[i].consumed = 0

\* What was ever put in is still there or drawn.
InsuranceBounded == insurance.balance + insurance.drawn =< MaxSeeded

InsuranceInv == InsuranceTypeOK /\ DrawsRecorded /\ InsuranceBounded

LEMMA InsuranceTypes ==
  ASSUME InsuranceInv
  PROVE  /\ insurance \in InsuranceRecords
         /\ mandate \in [Mandates -> MandateRecords]
         /\ insurance.balance \in Nat /\ insurance.drawn \in Nat /\ insurance.maxDraw \in Nat
         /\ insurance.minSeed \in 0..INSURANCE_BPS
         /\ daoDrawn \in Nat /\ MaxSeeded \in Nat /\ INSURANCE_BPS \in Nat \ {0}
         /\ InsuranceAmounts \subseteq Nat /\ IsFiniteSet(Mandates)
         /\ InsuranceAuthority \in Signers
         /\ insurance.balance + insurance.drawn =< MaxSeeded
<1>1. /\ insurance \in InsuranceRecords /\ daoDrawn \in Nat
      /\ mandate \in [Mandates -> MandateRecords]
      /\ insurance.balance + insurance.drawn =< MaxSeeded
  BY DEF InsuranceInv, InsuranceTypeOK, InsuranceBounded
<1>2. /\ MaxSeeded \in Nat /\ INSURANCE_BPS \in Nat \ {0} /\ InsuranceAmounts \subseteq Nat
      /\ IsFiniteSet(Mandates) /\ InsuranceAuthority \in Signers /\ DrawShares \subseteq Nat
  BY InsuranceAssumption
<1>3. /\ insurance.balance \in 0..MaxSeeded /\ insurance.drawn \in 0..MaxSeeded
      /\ insurance.minSeed \in 0..INSURANCE_BPS /\ insurance.maxDraw \in DrawShares \cup {0}
  BY <1>1 DEF InsuranceRecords
<1>4. insurance.balance \in Nat /\ insurance.drawn \in Nat
  BY <1>2, <1>3
<1>5. insurance.maxDraw \in Nat
  <2>1. \A d \in DrawShares \cup {0} : d \in Nat
    BY <1>2
  <2> QED
    BY <1>3, <2>1
<1> QED
  BY <1>1, <1>2, <1>3, <1>4, <1>5

\* A draw takes no more than the vault has.
LEMMA DrawFits ==
  ASSUME InsuranceInv, NEW net \in Nat
  PROVE  MaxDraw(net) \in Nat /\ MaxDraw(net) =< insurance.balance
<1> DEFINE q == (net * insurance.maxDraw) \div INSURANCE_BPS
<1>1. q \in Nat
  <2>1. net * insurance.maxDraw \in Nat
    BY InsuranceTypes, MulNat
  <2> QED
    BY <2>1, InsuranceTypes, DivFits
<1>2. MaxDraw(net) = IF insurance.maxDraw = 0 THEN insurance.balance
                                            ELSE Min({q, insurance.balance})
  BY DEF MaxDraw
<1> HIDE DEF q
<1>3. Min({q, insurance.balance}) = IF q =< insurance.balance THEN q ELSE insurance.balance
  BY <1>1, InsuranceTypes, MinOfTwo
<1> QED
  BY <1>1, <1>2, <1>3, InsuranceTypes

\* Money moves between the vault, what was drawn and what is still to come.
LEMMA WithBalanceFits ==
  ASSUME InsuranceInv, NEW n \in 0..MaxSeeded, NEW net
  PROVE  /\ WithBalance(n, net) \in InsuranceRecords
         /\ WithBalance(n, net).balance = n
         /\ WithBalance(n, net).drawn = insurance.drawn
<1> DEFINE s == n >= RequiredSeedAmount(insurance.minSeed, net)
<1>1. s \in BOOLEAN
  OBVIOUS
<1>2. WithBalance(n, net) = [insurance EXCEPT !.balance = n, !.seeded = s]
  BY DEF WithBalance
<1> HIDE DEF s
<1> QED
  BY <1>1, <1>2, InsuranceTypes DEF InsuranceRecords

LEMMA DrawKeeps ==
  ASSUME InsuranceInv, NEW net \in Nat, NEW n \in InsuranceAmounts, Draw(n, net)
  PROVE  insurance' \in InsuranceRecords /\ InsuranceBounded'
<1> DEFINE w == WithBalance(insurance.balance - n, net)
<1>1. n \in Nat /\ n =< insurance.balance
  BY InsuranceTypes, DrawFits DEF Draw
<1>2. insurance.balance - n \in 0..MaxSeeded
  BY <1>1, InsuranceTypes
<1>3. w \in InsuranceRecords /\ w.balance = insurance.balance - n /\ w.drawn = insurance.drawn
  BY <1>2, WithBalanceFits
<1> HIDE DEF w
<1>4. insurance' = [w EXCEPT !.drawn = w.drawn + n]
  BY DEF Draw, w
<1>5. w.drawn + n \in 0..MaxSeeded
  BY <1>1, <1>3, InsuranceTypes
<1>6. insurance' \in InsuranceRecords /\ insurance'.balance = w.balance /\ insurance'.drawn = w.drawn + n
  BY <1>3, <1>4, <1>5 DEF InsuranceRecords
<1> QED
  BY <1>1, <1>3, <1>6, InsuranceTypes DEF InsuranceBounded

\* Every step of the insurance vault.
LEMMA InsuranceKeeps ==
  ASSUME InsuranceInv, NEW net \in Nat, InsuranceNext(net)
  PROVE  InsuranceInv'
<1>1. ASSUME insurance' \in InsuranceRecords, InsuranceBounded', daoOn' \in BOOLEAN,
             UNCHANGED <<mandate, daoDrawn>>
      PROVE  InsuranceInv'
  BY <1>1 DEF InsuranceInv, InsuranceTypeOK, DrawsRecorded, Consumed
<1>2. daoOn \in BOOLEAN
  BY DEF InsuranceInv, InsuranceTypeOK
<1>3. ASSUME NEW m \in SeedShares, NEW d \in DrawShares, InitInsuranceVault(m, d)
      PROVE  InsuranceInv'
  <2> DEFINE s == (m = 0)
  <2>1. s \in BOOLEAN /\ m \in 0..INSURANCE_BPS
    BY <1>3, InsuranceAssumption DEF InitInsuranceVault
  <2>2. insurance' = [open |-> TRUE, minSeed |-> m, maxDraw |-> d, balance |-> 0, drawn |-> 0,
                      seeded |-> s]
    BY <1>3 DEF InitInsuranceVault, NoInsurance
  <2>3. 0 \in 0..MaxSeeded
    BY InsuranceTypes
  <2> HIDE DEF s
  <2>4. insurance' \in InsuranceRecords /\ insurance'.balance = 0 /\ insurance'.drawn = 0
    BY <2>1, <2>2, <2>3 DEF InsuranceRecords
  <2>5. InsuranceBounded'
    BY <2>4, InsuranceTypes DEF InsuranceBounded
  <2> QED
    BY <1>1, <1>2, <1>3, <2>4, <2>5 DEF InitInsuranceVault
<1>4. CASE CommitteeInstalled
  BY <1>1, <1>4, InsuranceTypes DEF CommitteeInstalled, InsuranceInv, InsuranceBounded
<1>5. ASSUME NEW n \in InsuranceAmounts, SeedInsuranceVault(n, net)
      PROVE  InsuranceInv'
  <2>1. n \in Nat /\ insurance.balance + insurance.drawn + n =< MaxSeeded
    BY <1>5, InsuranceTypes DEF SeedInsuranceVault
  <2>2. insurance.balance + n \in 0..MaxSeeded
    BY <2>1, InsuranceTypes
  <2>3. insurance' = WithBalance(insurance.balance + n, net)
    BY <1>5 DEF SeedInsuranceVault
  <2>4. /\ insurance' \in InsuranceRecords /\ insurance'.balance = insurance.balance + n
        /\ insurance'.drawn = insurance.drawn
    BY <2>2, <2>3, WithBalanceFits
  <2>5. InsuranceBounded'
    BY <2>1, <2>4, InsuranceTypes DEF InsuranceBounded
  <2> QED
    BY <1>1, <1>2, <1>5, <2>4, <2>5 DEF SeedInsuranceVault
<1>6. ASSUME NEW n \in InsuranceAmounts, DrawByAuthority(n, net)
      PROVE  InsuranceInv'
  <2>1. insurance' \in InsuranceRecords /\ InsuranceBounded'
    BY <1>6, DrawKeeps DEF DrawByAuthority
  <2> QED
    BY <1>1, <1>2, <1>6, <2>1 DEF DrawByAuthority, Draw
<1>7. ASSUME NEW n \in InsuranceAmounts, NEW s \in Signers, NEW i \in Mandates,
             MandateExecuted(i, s, n)
      PROVE  InsuranceInv'
  <2> DEFINE r == [executed |-> TRUE, target |-> s, amount |-> n, consumed |-> 0]
  <2>1. /\ mandate' = [mandate EXCEPT ![i] = r] /\ ~ mandate[i].executed
        /\ UNCHANGED <<insurance, daoOn, daoDrawn>>
    BY <1>7 DEF MandateExecuted
  <2>2. r \in MandateRecords /\ r.executed /\ r.amount = n /\ r.consumed = 0 /\ n \in Nat
    BY InsuranceTypes DEF MandateRecords
  <2> HIDE DEF r
  <2>3. mandate[i].consumed = 0
    BY <2>1 DEF InsuranceInv, DrawsRecorded
  <2>4. /\ mandate' \in [Mandates -> MandateRecords] /\ mandate'[i] = r
        /\ \A j \in Mandates : j # i => mandate'[j] = mandate[j]
    BY <2>1, <2>2, InsuranceTypes
  <2>5. Consumed' = Consumed
    BY <2>2, <2>3, <2>4 DEF Consumed
  <2>6. DrawsRecorded'
    BY <2>1, <2>2, <2>4, <2>5 DEF InsuranceInv, DrawsRecorded
  <2> QED
    BY <2>1, <2>4, <2>6 DEF InsuranceInv, InsuranceTypeOK, InsuranceBounded
<1>8. ASSUME NEW n \in InsuranceAmounts, NEW s \in Signers, NEW i \in Mandates,
             DrawByMandate(s, i, n, net)
      PROVE  InsuranceInv'
  <2> DEFINE r == [mandate[i] EXCEPT !.consumed = mandate[i].consumed + n]
  <2>1. insurance' \in InsuranceRecords /\ InsuranceBounded'
    BY <1>8, DrawKeeps DEF DrawByMandate
  <2>2. /\ mandate' = [mandate EXCEPT ![i] = r]
        /\ mandate[i].executed /\ mandate[i].consumed + n =< mandate[i].amount
        /\ daoDrawn' = daoDrawn + n /\ daoOn' = daoOn
    BY <1>8 DEF DrawByMandate, Draw, Mandated, ConsumedAfter
  <2>3. n \in Nat /\ mandate[i] \in MandateRecords /\ mandate[i].consumed \in Nat
    BY InsuranceTypes DEF MandateRecords
  <2>4. /\ r \in MandateRecords /\ r.executed = mandate[i].executed /\ r.amount = mandate[i].amount
        /\ r.consumed = mandate[i].consumed + n
    BY <2>3 DEF MandateRecords
  <2> HIDE DEF r
  <2>5. /\ mandate' \in [Mandates -> MandateRecords] /\ mandate'[i] = r
        /\ \A j \in Mandates : j # i => mandate'[j] = mandate[j]
    BY <2>2, <2>4, InsuranceTypes
  <2>6. Total(Consumed') = Total(Consumed) + n
    <3> DEFINE v == mandate[i].consumed + n
    <3>1. Consumed \in [Mandates -> Nat] /\ v \in Nat /\ Consumed[i] = mandate[i].consumed
      BY <2>3, InsuranceTypes DEF Consumed, MandateRecords
    <3>2. Consumed' = [Consumed EXCEPT ![i] = v]
      BY <2>4, <2>5 DEF Consumed
    <3>3. Total([Consumed EXCEPT ![i] = v]) = Total(Consumed) + (v - Consumed[i])
      <4> HIDE DEF v
      <4> QED
        BY <3>1, InsuranceTypes, TotalExcept, ZenonT(90)
    <3>4. Total(Consumed) \in Nat
      BY <3>1, InsuranceTypes, TotalNat
    <3> QED
      BY <2>3, <3>1, <3>2, <3>3, <3>4
  <2>7. DrawsRecorded'
    <3>1. daoDrawn' = Total(Consumed')
      BY <2>2, <2>6 DEF InsuranceInv, DrawsRecorded
    <3>2. ASSUME NEW j \in Mandates
          PROVE  /\ mandate'[j].consumed =< mandate'[j].amount
                 /\ ~ mandate'[j].executed => mandate'[j].consumed = 0
      BY <2>2, <2>4, <2>5 DEF InsuranceInv, DrawsRecorded
    <3> QED
      BY <3>1, <3>2 DEF DrawsRecorded
  <2>8. daoDrawn' \in Nat
    BY <2>2, <2>3, InsuranceTypes
  <2> QED
    BY <1>2, <2>1, <2>2, <2>5, <2>7, <2>8 DEF InsuranceInv, InsuranceTypeOK
<1> QED
  BY <1>3, <1>4, <1>5, <1>6, <1>7, <1>8 DEF InsuranceNext

\* The sum of the records is within the sum of the approvals.
LEMMA RecordedWithinApproved ==
  ASSUME InsuranceInv
  PROVE  DrawsWithinMandates
<1>1. \A i \in Mandates : /\ Consumed[i] \in Int /\ Approved[i] \in Int
                          /\ Consumed[i] =< Approved[i]
  BY InsuranceTypes DEF Consumed, Approved, MandateRecords, InsuranceInv, DrawsRecorded
<1>2. SumOn(Consumed, Mandates) =< SumOn(Approved, Mandates)
  BY <1>1, InsuranceTypes, SumMonotone
<1>3. Total(Consumed) = SumOn(Consumed, Mandates) /\ Total(Approved) = SumOn(Approved, Mandates)
  BY DEF Total, Consumed, Approved
<1> QED
  BY <1>2, <1>3 DEF InsuranceInv, DrawsRecorded, DrawsWithinMandates, Approved

-----------------------------------------------------------------------------
(***************************************************************************)
(* The two together.                                                       *)
(***************************************************************************)
\* A table of zeros adds up to nothing.
LEMMA ZeroTable ==
  ASSUME NEW S, IsFiniteSet(S)
  PROVE  Total([x \in S |-> 0]) = 0
<1>1. Total([x \in S |-> 0]) = Cardinality(S) * 0
  <2>1. 0 \in Nat
    OBVIOUS
  <2> QED
    BY <2>1, TotalConstant
<1>2. Cardinality(S) \in Nat
  BY FS_CardinalityType
<1> QED
  BY <1>1, <1>2

LEMMA InitCdpHolds ==
  ASSUME InitCdp
  PROVE  CdpInv
<1>1. position = [u \in Users |-> NoPosition] /\ NoPosition \in Positions
  BY Constants DEF InitCdp, NoPosition, Positions
<1>2. registered = [c \in Collaterals |-> NoConfig] /\ NoConfig \in Configs
  BY DEF InitCdp, NoConfig, Configs
<1>3. \A u \in Users : position[u].debt = 0
  BY <1>1 DEF NoPosition
<1>4. CdpTypeOK
  <2>1. wallet \in [Users -> [Collaterals -> Nat]]
    BY CdpAssumption DEF InitCdp
  <2>2. [price |-> price, pyth |-> pythPrice] \in Quotes
    <3>1. PICK q \in Quotes : price = q.price /\ pythPrice = q.pyth
      BY DEF InitCdp
    <3>2. q \in [price : Nat \ {0}, pyth : Nat \ {0}]
      BY CdpAssumption
    <3>3. [price |-> price, pyth |-> pythPrice] = q
      BY <3>1, <3>2
    <3> QED
      BY <3>3
  <2> QED
    BY <1>1, <1>2, <2>1, <2>2, Constants DEF InitCdp, CdpTypeOK
<1>5. SupplyHeld
  BY ZeroTable, Constants DEF InitCdp, SupplyHeld
<1>6. EveryTokenIsOwed
  <2>1. Principal = Total([u \in Users |-> 0])
    BY <1>3 DEF Principal
  <2>2. Principal = 0
    BY <2>1, ZeroTable, Constants
  <2> QED
    BY <2>2 DEF InitCdp, EveryTokenIsOwed
<1>7. ThresholdsBelowPar
  BY <1>2, Constants DEF ThresholdsBelowPar, NoConfig
<1> QED
  BY <1>3, <1>4, <1>5, <1>6, <1>7 DEF CdpInv, UnopenedOwesNothing, NoUnbackedDebt

LEMMA InitInsuranceHolds ==
  ASSUME InitInsurance
  PROVE  InsuranceInv
<1>1. NoInsurance \in InsuranceRecords /\ NoInsurance.balance = 0 /\ NoInsurance.drawn = 0
  BY InsuranceAssumption DEF NoInsurance, InsuranceRecords
<1>2. /\ NoMandate \in MandateRecords /\ NoMandate.consumed = 0 /\ NoMandate.amount = 0
      /\ mandate = [i \in Mandates |-> NoMandate]
  BY InsuranceAssumption DEF InitInsurance, NoMandate, MandateRecords
<1>3. \A i \in Mandates : mandate[i].consumed = 0 /\ mandate[i].amount = 0
  BY <1>2
<1>4. InsuranceTypeOK
  BY <1>1, <1>2 DEF InitInsurance, InsuranceTypeOK
<1>5. Total(Consumed) = 0
  <2>1. Consumed = [i \in Mandates |-> 0]
    BY <1>3 DEF Consumed
  <2> QED
    BY <2>1, ZeroTable, InsuranceAssumption
<1>6. DrawsRecorded
  BY <1>3, <1>5 DEF InitInsurance, DrawsRecorded
<1>7. InsuranceBounded
  BY <1>1, InsuranceAssumption DEF InitInsurance, InsuranceBounded
<1> QED
  BY <1>4, <1>6, <1>7 DEF InsuranceInv

\* A step of the one leaves the other alone.
LEMMA CdpIdle ==
  ASSUME CdpInv, UNCHANGED cdpVars
  PROVE  CdpInv'
BY DEF CdpInv, CdpTypeOK, SupplyHeld, EveryTokenIsOwed, Principal, UnopenedOwesNothing,
       ThresholdsBelowPar, NoUnbackedDebt, EffectiveDebt, cdpVars, ledgerVars

LEMMA InsuranceIdle ==
  ASSUME InsuranceInv, UNCHANGED insuranceVars
  PROVE  InsuranceInv'
BY DEF InsuranceInv, InsuranceTypeOK, DrawsRecorded, Consumed, InsuranceBounded, insuranceVars

LEMMA NextKeeps ==
  ASSUME CdpInv, InsuranceInv, [Next]_vars
  PROVE  CdpInv' /\ InsuranceInv'
<1>1. CASE PositionStep
  BY <1>1, CdpKeeps, InsuranceIdle DEF PositionStep, insuranceVars
<1>2. CASE InsuranceStep
  <2>1. totalMinted - totalBurned \in Int /\ 0 \in Int
    BY CdpTypes
  <2>2. NetSupply = IF totalMinted - totalBurned >= 0 THEN totalMinted - totalBurned ELSE 0
    <3> DEFINE d == totalMinted - totalBurned
    <3>1. Max({d, 0}) = IF d >= 0 THEN d ELSE 0
      <4> HIDE DEF d
      <4> QED
        BY <2>1 DEF Max, d
    <3> QED
      BY <3>1 DEF NetSupply
  <2>3. NetSupply \in Nat
    BY <2>1, <2>2
  <2> QED
    BY <1>2, <2>3, InsuranceKeeps, CdpIdle DEF InsuranceStep, cdpVars
<1>3. CASE MinterStep
  BY <1>3, IssueKeeps, InsuranceIdle DEF MinterStep, insuranceVars
<1>4. CASE UNCHANGED vars
  BY <1>4, CdpIdle, InsuranceIdle DEF vars
<1> QED
  BY <1>1, <1>2, <1>3, <1>4 DEF Next

\* The inductive invariant of a preset-3 stablecoin.
THEOREM CdpInvariance == Spec => [](CdpInv /\ InsuranceInv)
<1>1. Init => CdpInv /\ InsuranceInv
  BY InitCdpHolds, InitInsuranceHolds DEF Init
<1>2. (CdpInv /\ InsuranceInv) /\ [Next]_vars => (CdpInv /\ InsuranceInv)'
  BY NextKeeps
<1> QED
  BY <1>1, <1>2, PTL DEF Spec

\* No amount falls below zero, and the debts suffice to retire every token that
\* minters did not mint (cdp_borrow_stable.rs, cdp_repay_stable.rs, both
\* liquidations).
THEOREM DebtsAreSound == Spec => []DebtSound
<1>1. CdpInv /\ InsuranceInv => DebtSound
  BY DEF CdpInv, InsuranceInv, DebtSound, TypeOK
<1> QED
  BY <1>1, CdpInvariance, PTL

\* Debt stays covered at 150% by the one vault it is locked to while the price
\* stands and no liquidation took from it (cdp_borrow_stable.rs,
\* cdp_repay_stable.rs).
THEOREM DebtIsBacked == Spec => []NoUnbackedDebt
<1>1. CdpInv /\ InsuranceInv => NoUnbackedDebt
  BY DEF CdpInv
<1> QED
  BY <1>1, CdpInvariance, PTL

\* Draws stay within what executed proposals approved (insurance_vault.rs).
THEOREM DrawsAreApproved == Spec => []DrawsWithinMandates
<1>1. CdpInv /\ InsuranceInv => DrawsWithinMandates
  BY RecordedWithinApproved
<1> QED
  BY <1>1, CdpInvariance, PTL

-----------------------------------------------------------------------------
(***************************************************************************)
(* What a step may take out of a vault.                                    *)
(***************************************************************************)
\* The threshold a liquidation compares with is at most 120%.
LEMMA ThresholdFits ==
  ASSUME CdpInv, NEW c \in Collaterals, NEW named \in BOOLEAN
  PROVE  Threshold(c, named) \in Nat /\ Threshold(c, named) =< LIQUIDATION_THRESHOLD_BPS
BY Constants, CdpTypes DEF CdpInv, ThresholdsBelowPar, Threshold, Configs

LEMMA RatioNat ==
  ASSUME NEW n \in Nat, NEW d \in Nat \ {0}, NEW p \in Nat \ {0}
  PROVE  RatioBps(n, d, p) \in Nat
<1>1. n * p \in Nat
  BY MulNat
<1>2. Value(n, p) \in Nat
  BY <1>1, Constants, DivFits DEF Value
<1>3. Value(n, p) * BPS \in Nat
  BY <1>2, Constants, MulNat
<1> QED
  BY <1>3, DivFits DEF RatioBps

\* A liquidation of a position below the threshold that leaves it without debt,
\* or at a ratio no lower than the threshold, is justified in every vault.
LEMMA SeizureJustified ==
  ASSUME CdpInv, NEW l \in Users, NEW u \in Users, NEW c \in Collaterals,
         NEW burned, NEW seized \in Nat, seized =< vault[u][c],
         NEW left \in Positions, Seize(l, u, c, burned, seized, left),
         NEW p \in Nat \ {0}, NEW t \in Nat, t =< LIQUIDATION_THRESHOLD_BPS,
         Liquidatable(u, c, t, p),
         \/ left.debt + left.fees = 0
         \/ RatioBps(vault[u][c] - seized, left.debt + left.fees, p) >= t,
         NEW v \in Users, NEW d \in Collaterals, Taken(v, d) > 0
  PROVE  FairAt(v, d, p)
<1>1. /\ vault' = [vault EXCEPT ![u][c] = vault[u][c] - seized]
      /\ position' = [position EXCEPT ![u] = left]
  BY DEF Seize
<1>2. /\ vault \in [Users -> [Collaterals -> Nat]]
      /\ vault[u][c] \in Nat /\ vault[u][c] - seized \in Nat
  BY CdpTypes
<1>3. /\ vault'[u][c] = vault[u][c] - seized
      /\ \A w \in Users, e \in Collaterals : (w # u \/ e # c) => vault'[w][e] = vault[w][e]
  BY <1>1, <1>2, CellWritten
<1>4. v = u /\ d = c
  <2>1. CASE v # u \/ d # c
    <3>1. vault'[v][d] = vault[v][d] /\ vault[v][d] \in Nat
      BY <1>3, <2>1, CdpTypes
    <3> QED
      BY <3>1 DEF Taken
  <2> QED
    BY <2>1
<1> DEFINE old == RatioBps(vault[u][c], EffectiveDebt(u), p)
<1>5. old < t /\ EffectiveDebt(u) \in Nat \ {0}
  BY PositionFields DEF Liquidatable
<1>6. old \in Nat
  BY <1>2, <1>5, RatioNat
<1>7. EffectiveDebt(u)' = left.debt + left.fees /\ left.debt + left.fees \in Nat
  <2>1. position'[u] = left
    BY <1>1, CdpTypes
  <2>2. left.debt \in Nat /\ left.fees \in Nat
    BY DEF Positions
  <2> QED
    BY <2>1, <2>2 DEF EffectiveDebt
<1> HIDE DEF old
<1> DEFINE rest == left.debt + left.fees
           new == RatioBps(vault[u][c] - seized, rest, p)
<1>8. ASSUME rest > 0
      PROVE  new > old
  <2>1. rest \in Nat \ {0} /\ new >= t
    BY <1>7, <1>8
  <2>2. new \in Nat
    <3> HIDE DEF rest
    <3> QED
      BY <1>2, <2>1, RatioNat
  <2> HIDE DEF new, rest
  <2> QED
    BY <1>5, <1>6, <2>1, <2>2
<1>9. old < LIQUIDATION_THRESHOLD_BPS
  BY <1>5, <1>6, Constants
<1>10. EffectiveDebt(u)' > 0 => RatioBps(vault'[u][c], EffectiveDebt(u)', p) > old
  BY <1>3, <1>7, <1>8
<1> QED
  BY <1>4, <1>9, <1>10 DEF old, FairAt

\* A step that takes from no vault, except for the owner, is justified.
Justified ==
  \A u \in Users, c \in Collaterals :
    Seized(u, c) => FairAt(u, c, price) \/ FairAt(u, c, pythPrice)

LEMMA UntouchedJustified ==
  ASSUME CdpInv, UNCHANGED vault
  PROVE  Justified
<1>1. \A u \in Users, c \in Collaterals : vault[u][c] \in Nat
  BY CdpTypes
<1> QED
  BY <1>1 DEF Justified, Seized, Taken

LEMMA DepositJustified ==
  ASSUME CdpInv, NEW u \in Users, NEW c \in Collaterals, NEW n \in Amounts, NEW named \in BOOLEAN,
         CdpDepositCollateral(u, c, n, named)
  PROVE  Justified
<1>1. n \in Nat /\ vault[u][c] \in Nat /\ vault' = [vault EXCEPT ![u][c] = vault[u][c] + n]
  BY Constants, CdpTypes DEF CdpDepositCollateral
<1>2. vault[u][c] + n \in Nat
  BY <1>1
<1>3. /\ vault'[u][c] = vault[u][c] + n
      /\ \A v \in Users, d \in Collaterals : (v # u \/ d # c) => vault'[v][d] = vault[v][d]
  BY <1>1, <1>2, CdpTypes, CellWritten
<1>4. ASSUME NEW v \in Users, NEW d \in Collaterals
      PROVE  ~ (Taken(v, d) > 0)
  <2>1. vault[v][d] \in Nat
    BY CdpTypes
  <2>2. CASE v = u /\ d = c
    BY <1>1, <1>3, <2>2 DEF Taken
  <2>3. CASE v # u \/ d # c
    BY <1>3, <2>1, <2>3 DEF Taken
  <2> QED
    BY <2>2, <2>3
<1> QED
  BY <1>4 DEF Justified, Seized

LEMMA RepayJustified ==
  ASSUME CdpInv, NEW u \in Users, NEW c \in Collaterals, NEW n \in Amounts, NEW named \in BOOLEAN,
         CdpRepayStable(u, c, n, named)
  PROVE  Justified
<1> DEFINE r == CollateralToRelease(u, c, n)
<1>1. /\ vault' = [vault EXCEPT ![u][c] = vault[u][c] - r]
      /\ wallet' = [wallet EXCEPT ![u][c] = wallet[u][c] + r]
      /\ n \in Nat /\ n > 0 /\ n =< position[u].debt
  BY Constants DEF CdpRepayStable
<1>2. vault[u][c] \in Nat /\ wallet[u][c] \in Nat /\ position[u].debt \in Nat \ {0}
  BY <1>1, CdpTypes, PositionFields
<1>3. r \in Nat /\ r =< vault[u][c]
  <2> DEFINE v == vault[u][c]
             d == position[u].debt
  <2>1. r = (v * n) \div d
    BY DEF CollateralToRelease
  <2> HIDE DEF r
  <2>2. v \in Nat /\ d \in Nat \ {0} /\ n =< d
    BY <1>1, <1>2
  <2> HIDE DEF v, d
  <2>3. v * n \in Nat
    BY <1>1, <2>2, MulNat
  <2>4. r \in Nat /\ r * d =< v * n
    BY <2>1, <2>2, <2>3, DivFits
  <2>5. v * n =< v * d
    <3>1. n * v =< d * v
      BY <1>1, <2>2, MulMonotone
    <3> QED
      BY <1>1, <2>2, <3>1
  <2>6. r * d =< v * d
    <3>1. r * d \in Nat /\ v * d \in Nat
      BY <2>2, <2>4, MulNat
    <3> QED
      BY <2>3, <2>4, <2>5, <3>1
  <2>7. r =< v
    BY <2>2, <2>4, <2>6, MulCancel
  <2> QED
    BY <2>4, <2>7 DEF v
<1> HIDE DEF r
<1>4. vault[u][c] - r \in Nat /\ wallet[u][c] + r \in Nat
  BY <1>2, <1>3
<1>5. /\ vault'[u][c] = vault[u][c] - r
      /\ \A v \in Users, d \in Collaterals : (v # u \/ d # c) => vault'[v][d] = vault[v][d]
  BY <1>1, <1>4, CdpTypes, CellWritten
<1>6. wallet'[u][c] = wallet[u][c] + r
  BY <1>1, <1>4, CdpTypes, CellWritten
<1>7. ASSUME NEW v \in Users, NEW d \in Collaterals, Taken(v, d) > 0
      PROVE  wallet'[v][d] = wallet[v][d] + Taken(v, d)
  <2>1. vault[v][d] \in Nat
    BY CdpTypes
  <2>2. CASE v = u /\ d = c
    <3>1. Taken(u, c) = r
      BY <1>2, <1>3, <1>5 DEF Taken
    <3> QED
      BY <1>6, <2>2, <3>1
  <2>3. CASE v # u \/ d # c
    BY <1>5, <1>7, <2>1, <2>3 DEF Taken
  <2> QED
    BY <2>2, <2>3
<1> QED
  BY <1>7 DEF Justified, Seized

LEMMA LiquidationIsJustified ==
  ASSUME CdpInv, LiquidationNext
  PROVE  Justified
<1>1. ASSUME NEW l \in Users, NEW u \in Users, NEW c \in Collaterals, NEW named \in BOOLEAN,
             CdpLiquidateFull(l, u, c, named)
      PROVE  Justified
  <2> DEFINE left == [position[u] EXCEPT !.debt = 0, !.fees = 0]
             t == Threshold(c, named)
  <2>1. /\ Seize(l, u, c, EffectiveDebt(u), vault[u][c], left)
        /\ Liquidatable(u, c, t, price)
    BY <1>1 DEF CdpLiquidateFull
  <2>2. left \in Positions /\ left.debt = 0 /\ left.fees = 0
    BY PositionFields DEF Positions
  <2>3. t \in Nat /\ t =< LIQUIDATION_THRESHOLD_BPS
    BY ThresholdFits
  <2>4. vault[u][c] \in Nat /\ vault[u][c] =< vault[u][c] /\ left.debt + left.fees = 0
    BY <2>2, CdpTypes
  <2> HIDE DEF left, t
  <2> QED
    BY <2>1, <2>2, <2>3, <2>4, CdpTypes, SeizureJustified DEF Justified, Seized
<1>2. ASSUME NEW l \in Users, NEW u \in Users, NEW c \in Collaterals, NEW named \in BOOLEAN,
             NEW n \in Amounts, CdpLiquidatePartial(l, u, c, n, named)
      PROVE  Justified
  <2> DEFINE seized == SeizedV1(u, c, n, Bonus(c, named))
             left == LeftV1(u, n)
             t == Threshold(c, named)
  <2>1. /\ Seize(l, u, c, n, seized, left) /\ Liquidatable(u, c, t, price) /\ n < position[u].debt
        /\ RatioBps(vault[u][c] - seized, EffectiveDebt(u) - n, price) >= t
    BY <1>2 DEF CdpLiquidatePartial, Restored
  <2>2. n \in Nat /\ Bonus(c, named) \in Nat
    BY Constants, CdpTypes DEF Bonus, Configs
  <2>3. seized \in Nat /\ seized =< vault[u][c]
    BY <2>2, SeizedV1Fits
  <2>4. position[u].debt - n \in Nat
    BY <2>1, <2>2, PositionFields
  <2>5. left \in Positions /\ left.debt = position[u].debt - n /\ left.fees = position[u].fees
    BY <2>4, PositionFields DEF Positions, LeftV1
  <2>6. t \in Nat /\ t =< LIQUIDATION_THRESHOLD_BPS
    BY ThresholdFits
  <2> HIDE DEF left, t, seized
  <2>7. EffectiveDebt(u) - n = left.debt + left.fees
    BY <2>2, <2>5, PositionFields
  <2> QED
    BY <2>1, <2>3, <2>5, <2>6, <2>7, CdpTypes, SeizureJustified DEF Justified, Seized
<1>3. ASSUME NEW l \in Users, NEW u \in Users, NEW c \in Collaterals,
             NEW n \in Amounts \cup {0}, CdpLiquidateV2(l, u, c, n)
      PROVE  Justified
  <2> DEFINE repay == Settled(u, n)
             seized == SeizedV2(u, c, repay)
             left == LeftV2(u, repay)
             t == Threshold(c, TRUE)
  <2>1. /\ Seize(l, u, c, repay, seized, left) /\ Liquidatable(u, c, t, pythPrice)
        /\ repay < EffectiveDebt(u) =>
             RatioBps(vault[u][c] - seized, EffectiveDebt(u) - repay, pythPrice)
               >= MIN_COLLATERAL_RATIO_BPS
    BY <1>3 DEF CdpLiquidateV2, Settled, Restored, Threshold
  <2>2. repay \in Nat /\ repay =< EffectiveDebt(u)
    BY Constants, SettledFits
  <2> HIDE DEF repay
  <2>3. seized \in Nat /\ seized =< vault[u][c]
    BY <2>2, SeizedV2Fits
  <2>4. /\ left \in Positions /\ left.debt =< position[u].debt
        /\ IF repay >= position[u].debt
             THEN left.debt = 0 /\ left.fees = 0
             ELSE left.debt = position[u].debt - repay /\ left.fees = position[u].fees
    BY <2>2, LeftV2Fits
  <2>5. t \in Nat /\ t =< LIQUIDATION_THRESHOLD_BPS
    BY ThresholdFits
  <2> HIDE DEF left, t, seized
  <2>6. \/ left.debt + left.fees = 0
        \/ RatioBps(vault[u][c] - seized, left.debt + left.fees, pythPrice) >= t
    <3>1. CASE repay >= position[u].debt
      BY <2>4, <3>1
    <3>2. CASE ~ (repay >= position[u].debt)
      <4>1. /\ repay < EffectiveDebt(u) /\ left.debt + left.fees = EffectiveDebt(u) - repay
            /\ EffectiveDebt(u) - repay \in Nat \ {0}
        BY <2>2, <2>4, <3>2, PositionFields
      <4>2. RatioBps(vault[u][c] - seized, EffectiveDebt(u) - repay, pythPrice) \in Nat
        <5>1. vault[u][c] - seized \in Nat
          BY <2>3, CdpTypes
        <5> QED
          BY <4>1, <5>1, CdpTypes, RatioNat
      <4>3. t =< MIN_COLLATERAL_RATIO_BPS
        BY <2>5, Constants
      <4> QED
        BY <2>1, <2>5, <4>1, <4>2, <4>3, Constants
    <3> QED
      BY <3>1, <3>2
  <2> QED
    BY <2>1, <2>3, <2>4, <2>5, <2>6, CdpTypes, SeizureJustified DEF Justified, Seized
<1> QED
  BY <1>1, <1>2, <1>3 DEF LiquidationNext

LEMMA CdpJustified ==
  ASSUME CdpInv, CdpNext
  PROVE  Justified
<1>1. CASE PositionNext
  <2>1. ASSUME NEW u \in Users, NEW c \in Collaterals, NEW n \in Amounts, CdpBorrowStable(u, c, n)
        PROVE  Justified
    BY <2>1, UntouchedJustified DEF CdpBorrowStable
  <2> QED
    BY <1>1, <2>1, DepositJustified, RepayJustified DEF PositionNext
<1>2. CASE LiquidationNext
  BY <1>2, LiquidationIsJustified
<1>3. CASE ParameterNext
  <2>1. UNCHANGED vault
    BY <1>3 DEF ParameterNext, RegisterCollateral, UpdateCollateralConfig, SetStabilityFee,
                UpdateStabilityFeePid, CollectStabilityFee
  <2> QED
    BY <2>1, UntouchedJustified
<1>4. CASE PriceMoves \/ GateMoves \/ SecondPasses
  BY <1>4, UntouchedJustified DEF PriceMoves, GateMoves, SecondPasses
<1>5. CASE \E u, v \in Users, n \in Amounts : Send(u, v, n)
  BY <1>5, UntouchedJustified DEF Send
<1> QED
  BY <1>1, <1>2, <1>3, <1>4, <1>5 DEF CdpNext

\* Collateral leaves a vault to its owner by repayment, and otherwise only from
\* a position below 120% that is better off or free of debt afterwards, at the
\* effective price (cdp_liquidate.rs) or at that of the Pyth feed
\* (cdp_liquidate_v2.rs).
THEOREM LiquidationsAreJustified == Spec => LiquidationJustified
<1>1. CdpInv /\ [Next]_vars => [Justified]_cdpVars
  <2> SUFFICES ASSUME CdpInv, [Next]_vars PROVE [Justified]_cdpVars
    OBVIOUS
  <2>1. CASE PositionStep
    BY <2>1, CdpJustified DEF PositionStep
  <2>2. CASE InsuranceStep
    BY <2>2 DEF InsuranceStep
  <2>3. CASE MinterStep
    BY <2>3, UntouchedJustified DEF MinterStep, Issue
  <2>4. CASE UNCHANGED vars
    BY <2>4 DEF vars
  <2> QED
    BY <2>1, <2>2, <2>3, <2>4 DEF Next
<1>2. [Justified]_cdpVars <=>
        [ \A u \in Users, c \in Collaterals :
            Seized(u, c) => FairAt(u, c, price) \/ FairAt(u, c, pythPrice) ]_cdpVars
  BY DEF Justified
<1> QED
  BY <1>1, <1>2, CdpInvariance, PTL DEF Spec, LiquidationJustified

-----------------------------------------------------------------------------
(***************************************************************************)
(* What a step may charge.                                                 *)
(***************************************************************************)
\* What a position that reads p would owe, at the rate of now.
Owes(p) == p.debt + p.fees + ((p.debt * feeBps * p.age) \div (BPS * YEAR))

LEMMA OwesNat ==
  ASSUME CdpInv, NEW p \in Positions
  PROVE  Owes(p) \in Nat
<1>1. p.debt \in Nat /\ p.fees \in Nat /\ p.age \in Nat /\ feeBps \in Nat
  BY CdpTypes, Constants DEF Positions
<1>2. p.debt * feeBps * p.age \in Nat
  BY <1>1, MulNat
<1>3. BPS * YEAR \in Nat \ {0}
  BY Constants
<1>4. (p.debt * feeBps * p.age) \div (BPS * YEAR) \in Nat
  BY <1>2, <1>3, DivFits
<1> QED
  BY <1>1, <1>4 DEF Owes

\* Of two positions of one age, the one with less principal accrues less.
LEMMA LessAccrues ==
  ASSUME CdpInv, NEW p \in Positions, NEW q \in Positions, p.debt =< q.debt, p.age = q.age
  PROVE  /\ Owes(p) - (p.debt + p.fees) \in Nat
         /\ Owes(p) - (p.debt + p.fees) =< Owes(q) - (q.debt + q.fees)
<1> DEFINE x == p.debt * feeBps * p.age
           y == q.debt * feeBps * p.age
           z == BPS * YEAR
<1>1. /\ p.debt \in Nat /\ p.fees \in Nat /\ p.age \in Nat /\ feeBps \in Nat
      /\ q.debt \in Nat /\ q.fees \in Nat
  BY CdpTypes, Constants DEF Positions
<1>2. x \in Nat /\ y \in Nat
  BY <1>1, MulNat
<1>3. z \in Nat \ {0}
  BY Constants
<1>4. x =< y
  <2>1. p.debt * feeBps \in Nat /\ q.debt * feeBps \in Nat
    BY <1>1, MulNat
  <2>2. p.debt * feeBps =< q.debt * feeBps
    BY <1>1, MulMonotone
  <2> QED
    BY <1>1, <2>1, <2>2, MulMonotone
<1>5. Owes(p) = p.debt + p.fees + (x \div z) /\ Owes(q) = q.debt + q.fees + (y \div z)
  BY DEF Owes
<1> HIDE DEF x, y, z
<1>6. x \div z =< y \div z /\ x \div z \in Nat /\ y \div z \in Nat
  BY <1>2, <1>3, <1>4, DivMonotone, DivFits
<1> QED
  BY <1>1, <1>5, <1>6

\* A position with no principal or no age accrues nothing.
LEMMA NothingAccrues ==
  ASSUME CdpInv, NEW p \in Positions, p.debt = 0 \/ p.age = 0
  PROVE  Owes(p) = p.debt + p.fees
<1>1. p.debt \in Nat /\ p.fees \in Nat /\ p.age \in Nat /\ feeBps \in Nat
  BY CdpTypes, Constants DEF Positions
<1>2. p.debt * feeBps * p.age = 0
  BY <1>1
<1> DEFINE z == BPS * YEAR
<1>3. z \in Nat \ {0}
  BY Constants
<1>4. Owes(p) = p.debt + p.fees + (0 \div z)
  BY <1>2 DEF Owes
<1> HIDE DEF z
<1>5. 0 \div z = 0
  BY <1>3
<1> QED
  BY <1>1, <1>4, <1>5

\* The step burns no more than it takes off the debts.
Charged == Owed' + totalBurned' - totalBurned =< Owed + totalMinted' - totalMinted

\* Everything owed, position by position.
Owing == [u \in Users |-> Owes(position[u])]

LEMMA OwedIsOwing ==
  ASSUME CdpInv
  PROVE  Owed = Total(Owing) /\ Owing \in [Users -> Nat] /\ Total(Owing) \in Nat
<1>1. \A u \in Users : Owes(position[u]) \in Nat
  BY CdpTypes, OwesNat
<1>2. Owing \in [Users -> Nat]
  BY <1>1 DEF Owing
<1>3. \A u \in Users : EffectiveDebt(u) + PendingFees(u) = Owes(position[u])
  BY DEF EffectiveDebt, PendingFees, Owes
<1>4. [u \in Users |-> EffectiveDebt(u) + PendingFees(u)] = Owing
  BY <1>3 DEF Owing
<1> QED
  BY <1>2, <1>4, Constants, TotalNat DEF Owed

\* Writing one position charges no more than the difference.
LEMMA WriteCharges ==
  ASSUME CdpInv, feeBps' = feeBps, NEW u \in Users, NEW left \in Positions,
         position' = [position EXCEPT ![u] = left],
         totalBurned' \in Nat, totalMinted' \in Nat,
         Owes(left) + (totalBurned' - totalBurned)
           =< Owes(position[u]) + (totalMinted' - totalMinted)
  PROVE  Charged
<1> DEFINE v == Owes(left)
<1>1. v \in Nat /\ Owing[u] = Owes(position[u]) /\ Owing[u] \in Nat
  BY OwesNat, CdpTypes DEF Owing
<1>2. Owed' = Total([Owing EXCEPT ![u] = v])
  <2>1. ASSUME NEW w \in Users
        PROVE  (EffectiveDebt(w) + PendingFees(w))' = [Owing EXCEPT ![u] = v][w]
    <3>1. position'[w] = IF w = u THEN left ELSE position[w]
      BY CdpTypes
    <3>2. (EffectiveDebt(w) + PendingFees(w))' = Owes(position'[w])
      BY DEF EffectiveDebt, PendingFees, Owes
    <3> QED
      BY <3>1, <3>2 DEF Owing
  <2>2. [w \in Users |-> EffectiveDebt(w) + PendingFees(w)]' = [Owing EXCEPT ![u] = v]
    BY <2>1 DEF Owing
  <2> QED
    BY <2>2 DEF Owed
<1> HIDE DEF v
<1>3. Owed' = Owed + (v - Owing[u]) /\ Owed \in Nat
  BY <1>1, <1>2, OwedIsOwing, Constants, TotalExcept, ZenonT(90)
<1> QED
  BY <1>1, <1>3, CdpTypes DEF Charged, v

\* A step that leaves the positions and the burns alone charges nothing.
LEMMA NothingCharged ==
  ASSUME CdpInv, UNCHANGED <<feeBps, position, totalBurned>>, totalMinted' \in Nat,
         totalMinted =< totalMinted'
  PROVE  Charged
<1>1. Owed' = Owed
  BY DEF Owed, EffectiveDebt, PendingFees
<1>2. Owed \in Nat
  BY OwedIsOwing
<1> QED
  BY <1>1, <1>2, CdpTypes DEF Charged

\* Burning what the debt falls by charges nothing twice.
LEMMA BurnCharges ==
  ASSUME CdpInv, feeBps' = feeBps, NEW l \in Users, NEW u \in Users, NEW n \in Nat, BurnFrom(l, n),
         NEW left \in Positions, position' = [position EXCEPT ![u] = left],
         left.debt =< position[u].debt, left.age = position[u].age,
         n =< EffectiveDebt(u) - (left.debt + left.fees)
  PROVE  Charged
<1>1. totalBurned' = totalBurned + n /\ totalMinted' = totalMinted
  BY DEF BurnFrom
<1>2. totalBurned \in Nat /\ totalMinted \in Nat
  BY CdpTypes
<1>3. position[u] \in Positions /\ EffectiveDebt(u) = position[u].debt + position[u].fees
  BY PositionFields
<1>4. /\ Owes(left) - (left.debt + left.fees)
           =< Owes(position[u]) - (position[u].debt + position[u].fees)
      /\ Owes(left) \in Nat /\ Owes(position[u]) \in Nat
  BY <1>3, LessAccrues, OwesNat
<1>5. /\ left.debt \in Nat /\ left.fees \in Nat
      /\ position[u].debt \in Nat /\ position[u].fees \in Nat
  BY <1>3 DEF Positions
<1>6. Owes(left) + (totalBurned' - totalBurned)
        =< Owes(position[u]) + (totalMinted' - totalMinted)
  BY <1>1, <1>2, <1>3, <1>4, <1>5
<1>7. totalBurned' \in Nat /\ totalMinted' \in Nat
  BY <1>1, <1>2
<1> QED
  BY <1>6, <1>7, WriteCharges

LEMMA BorrowCharges ==
  ASSUME CdpInv, NEW u \in Users, NEW c \in Collaterals, NEW n \in Amounts, CdpBorrowStable(u, c, n)
  PROVE  Charged
<1> DEFINE m == IF position[u].mint = NoMint THEN c ELSE position[u].mint
           d == position[u].debt + n
           f == position[u].fees + PendingFees(u)
           left == [mint |-> m, debt |-> d, fees |-> f, age |-> 0]
<1>1. /\ position' = [position EXCEPT ![u] = left]
      /\ totalMinted' = totalMinted + n /\ totalBurned' = totalBurned /\ feeBps' = feeBps
  BY DEF CdpBorrowStable
<1>2. n \in Nat /\ totalMinted \in Nat /\ totalBurned \in Nat
  BY Constants, CdpTypes
<1>3. m \in Collaterals \cup {NoMint} /\ d \in Nat /\ f \in Nat /\ 0 \in 0..MaxAge
  BY <1>2, PositionFields, PendingNat, Constants
<1>4. Owes(position[u]) + n = d + f
  <2>1. Owes(position[u]) = position[u].debt + position[u].fees + PendingFees(u)
    BY DEF Owes, PendingFees
  <2> QED
    BY <1>2, <2>1, PositionFields, PendingNat
<1> HIDE DEF m, d, f
<1>5. left \in Positions /\ left.age = 0 /\ left.debt = d /\ left.fees = f
  BY <1>3 DEF Positions
<1> HIDE DEF left
<1>6. Owes(left) = d + f
  BY <1>5, NothingAccrues
<1>7. Owes(position[u]) \in Nat
  BY PositionFields, OwesNat
<1>8. Owes(left) + (totalBurned' - totalBurned)
        =< Owes(position[u]) + (totalMinted' - totalMinted)
  BY <1>1, <1>2, <1>3, <1>4, <1>6, <1>7
<1>9. totalBurned' \in Nat /\ totalMinted' \in Nat
  BY <1>1, <1>2
<1> QED
  BY <1>1, <1>5, <1>8, <1>9, WriteCharges

LEMMA RepayCharges ==
  ASSUME CdpInv, NEW u \in Users, NEW c \in Collaterals, NEW n \in Amounts, NEW named \in BOOLEAN,
         CdpRepayStable(u, c, n, named)
  PROVE  Charged
<1> DEFINE left == [position[u] EXCEPT !.debt = position[u].debt - n, !.fees = 0]
<1>1. /\ position' = [position EXCEPT ![u] = left]
      /\ BurnFrom(u, n + position[u].fees) /\ feeBps' = feeBps /\ n =< position[u].debt
  BY DEF CdpRepayStable
<1>2. n \in Nat /\ position[u].debt - n \in Nat /\ n + position[u].fees \in Nat
  BY <1>1, Constants, PositionFields
<1>3. /\ left \in Positions /\ left.debt = position[u].debt - n /\ left.fees = 0
      /\ left.age = position[u].age
  BY <1>2, PositionFields DEF Positions
<1> HIDE DEF left
<1>4. /\ left.debt =< position[u].debt
      /\ n + position[u].fees =< EffectiveDebt(u) - (left.debt + left.fees)
  BY <1>2, <1>3, PositionFields
<1> QED
  BY <1>1, <1>2, <1>3, <1>4, BurnCharges

LEMMA LiquidationCharges ==
  ASSUME CdpInv, LiquidationNext
  PROVE  Charged
<1>1. ASSUME NEW l \in Users, NEW u \in Users, NEW c \in Collaterals, NEW named \in BOOLEAN,
             CdpLiquidateFull(l, u, c, named)
      PROVE  Charged
  <2> DEFINE left == [position[u] EXCEPT !.debt = 0, !.fees = 0]
  <2>1. /\ position' = [position EXCEPT ![u] = left]
        /\ BurnFrom(l, EffectiveDebt(u)) /\ feeBps' = feeBps
    BY <1>1 DEF CdpLiquidateFull, Seize
  <2>2. left \in Positions /\ left.debt = 0 /\ left.fees = 0 /\ left.age = position[u].age
    BY PositionFields DEF Positions
  <2> HIDE DEF left
  <2>3. /\ left.debt =< position[u].debt /\ EffectiveDebt(u) \in Nat
        /\ EffectiveDebt(u) =< EffectiveDebt(u) - (left.debt + left.fees)
    BY <2>2, PositionFields
  <2> QED
    BY <2>1, <2>2, <2>3, BurnCharges
<1>2. ASSUME NEW l \in Users, NEW u \in Users, NEW c \in Collaterals, NEW named \in BOOLEAN,
             NEW n \in Amounts, CdpLiquidatePartial(l, u, c, n, named)
      PROVE  Charged
  <2> DEFINE left == LeftV1(u, n)
  <2>1. /\ position' = [position EXCEPT ![u] = left]
        /\ BurnFrom(l, n) /\ feeBps' = feeBps /\ n < position[u].debt
    BY <1>2 DEF CdpLiquidatePartial, Seize
  <2>2. n \in Nat /\ position[u].debt - n \in Nat
    BY <2>1, Constants, PositionFields
  <2>3. /\ left \in Positions /\ left.debt = position[u].debt - n /\ left.fees = position[u].fees
        /\ left.age = position[u].age
    BY <2>2, PositionFields DEF Positions, LeftV1
  <2> HIDE DEF left
  <2>4. left.debt =< position[u].debt /\ n =< EffectiveDebt(u) - (left.debt + left.fees)
    BY <2>2, <2>3, PositionFields
  <2> QED
    BY <2>1, <2>2, <2>3, <2>4, BurnCharges
<1>3. ASSUME NEW l \in Users, NEW u \in Users, NEW c \in Collaterals,
             NEW n \in Amounts \cup {0}, CdpLiquidateV2(l, u, c, n)
      PROVE  Charged
  <2> DEFINE repay == Settled(u, n)
             left == LeftV2(u, repay)
  <2>1. /\ position' = [position EXCEPT ![u] = left]
        /\ BurnFrom(l, repay) /\ feeBps' = feeBps
    BY <1>3 DEF CdpLiquidateV2, Seize, Settled
  <2>2. repay \in Nat /\ repay =< EffectiveDebt(u)
    BY Constants, SettledFits
  <2> HIDE DEF repay
  <2>3. /\ left \in Positions /\ left.debt =< position[u].debt /\ left.age = position[u].age
        /\ IF repay >= position[u].debt
             THEN left.debt = 0 /\ left.fees = 0
             ELSE left.debt = position[u].debt - repay /\ left.fees = position[u].fees
    BY <2>2, LeftV2Fits
  <2> HIDE DEF left
  <2>4. repay =< EffectiveDebt(u) - (left.debt + left.fees)
    BY <2>2, <2>3, PositionFields
  <2> QED
    BY <2>1, <2>2, <2>3, <2>4, BurnCharges
<1> QED
  BY <1>1, <1>2, <1>3 DEF LiquidationNext

LEMMA CollectCharges ==
  ASSUME CdpInv, NEW u \in Users, CollectStabilityFee(u)
  PROVE  Charged
<1> DEFINE left == FeesCollected(u)
           n == position[u].fees + PendingFees(u)
<1>1. position' = [position EXCEPT ![u] = left] /\ BurnFrom(u, n) /\ feeBps' = feeBps
  BY DEF CollectStabilityFee
<1>2. n \in Nat /\ Owes(position[u]) = position[u].debt + n
  <2>1. Owes(position[u]) = position[u].debt + position[u].fees + PendingFees(u)
    BY DEF Owes, PendingFees
  <2> QED
    BY <2>1, PositionFields, PendingNat
<1>3. left \in Positions /\ left.debt = position[u].debt /\ left.fees = 0 /\ left.age = 0
  <2>1. 0 \in 0..MaxAge /\ 0 \in Nat
    BY Constants
  <2>2. left = [position[u] EXCEPT !.fees = 0, !.age = 0]
    BY DEF FeesCollected
  <2> HIDE DEF left
  <2> QED
    BY <2>1, <2>2, PositionFields DEF Positions
<1> HIDE DEF left, n
<1>4. Owes(left) = position[u].debt
  BY <1>3, NothingAccrues, PositionFields
<1>5. /\ totalBurned' = totalBurned + n /\ totalMinted' = totalMinted
      /\ totalBurned \in Nat /\ totalMinted \in Nat
  BY <1>1, CdpTypes DEF BurnFrom
<1>6. totalBurned' \in Nat /\ totalMinted' \in Nat
  BY <1>2, <1>5
<1>7. Owes(left) + (totalBurned' - totalBurned)
        =< Owes(position[u]) + (totalMinted' - totalMinted)
  BY <1>2, <1>4, <1>5, PositionFields
<1> QED
  BY <1>1, <1>3, <1>6, <1>7, WriteCharges

\* When no age rises, either no second passed or no position is open.
LEMMA StillSecond ==
  ASSUME CdpInv, SecondPasses, \A u \in Users : position'[u].age =< position[u].age
  PROVE  position' = position
<1>1. /\ position' = [u \in Users |-> IF position[u].mint = NoMint THEN position[u]
                                      ELSE [position[u] EXCEPT !.age = position[u].age + 1]]
      /\ position \in [Users -> Positions]
  BY CdpTypes DEF SecondPasses
<1>2. ASSUME NEW u \in Users
      PROVE  position'[u] = position[u]
  <2>1. CASE position[u].mint = NoMint
    BY <1>1, <2>1
  <2>2. CASE position[u].mint # NoMint
    <3>1. position[u].age \in Nat
      BY PositionFields, Constants
    <3>2. position'[u].age = position[u].age + 1
      BY <1>1, <2>2, PositionFields DEF Positions
    <3> QED
      BY <3>1, <3>2
  <2> QED
    BY <2>1, <2>2
<1> QED
  BY <1>1, <1>2

LEMMA CdpCharges ==
  ASSUME CdpInv, CdpNext, feeBps' = feeBps, \A u \in Users : position'[u].age =< position[u].age
  PROVE  Charged
<1>0. totalMinted \in Nat /\ totalMinted =< totalMinted
  BY CdpTypes
<1>1. CASE PositionNext
  <2>1. ASSUME NEW u \in Users, NEW c \in Collaterals, NEW n \in Amounts, NEW named \in BOOLEAN,
               CdpDepositCollateral(u, c, n, named)
        PROVE  Charged
    BY <1>0, <2>1, NothingCharged DEF CdpDepositCollateral, ledgerVars
  <2> QED
    BY <1>1, <2>1, BorrowCharges, RepayCharges DEF PositionNext
<1>2. CASE LiquidationNext
  BY <1>2, LiquidationCharges
<1>3. CASE ParameterNext
  <2>1. ASSUME NEW c \in Collaterals, NEW p \in CollateralParams,
               RegisterCollateral(c, p) \/ UpdateCollateralConfig(c, p)
        PROVE  Charged
    BY <1>0, <2>1, NothingCharged DEF RegisterCollateral, UpdateCollateralConfig, ledgerVars
  <2>2. ASSUME NEW bps \in FeeRates, SetStabilityFee(bps)
        PROVE  Charged
    BY <1>0, <2>2, NothingCharged DEF SetStabilityFee, ledgerVars
  <2>3. ASSUME NEW bps \in PidFees, UpdateStabilityFeePid(bps)
        PROVE  Charged
    BY <1>0, <2>3, NothingCharged DEF UpdateStabilityFeePid, ledgerVars
  <2> QED
    BY <1>3, <2>1, <2>2, <2>3, CollectCharges DEF ParameterNext
<1>4. CASE PriceMoves \/ GateMoves
  BY <1>0, <1>4, NothingCharged DEF PriceMoves, GateMoves, ledgerVars
<1>5. CASE SecondPasses
  BY <1>0, <1>5, StillSecond, NothingCharged DEF SecondPasses, ledgerVars
<1>6. CASE \E u, v \in Users, n \in Amounts : Send(u, v, n)
  BY <1>0, <1>6, NothingCharged DEF Send
<1> QED
  BY <1>1, <1>2, <1>3, <1>4, <1>5, <1>6 DEF CdpNext

\* While the fee rate stands and no time passes, no instruction burns more than
\* it takes off the debts (stability_fee.rs, cdp_repay_stable.rs, both
\* liquidations).
THEOREM NoFeeIsChargedTwice == Spec => NothingPaidTwice
<1> DEFINE Still == feeBps' = feeBps /\ (\A u \in Users : position'[u].age =< position[u].age)
<1>1. CdpInv /\ [Next]_vars => [Still => Charged]_cdpVars
  <2> SUFFICES ASSUME CdpInv, [Next]_vars, Still PROVE [Charged]_cdpVars
    OBVIOUS
  <2>1. CASE PositionStep
    BY <2>1, CdpCharges DEF PositionStep
  <2>2. CASE InsuranceStep
    BY <2>2 DEF InsuranceStep
  <2>3. CASE MinterStep
    <3>1. PICK u \in Users, n \in Amounts : Issue(u, n)
      BY <2>3 DEF MinterStep
    <3>2. n \in Nat /\ totalMinted \in Nat
      BY Constants, CdpTypes
    <3> QED
      BY <3>1, <3>2, NothingCharged DEF Issue
  <2>4. CASE UNCHANGED vars
    BY <2>4 DEF vars
  <2> QED
    BY <2>1, <2>2, <2>3, <2>4 DEF Next
<1>2. [Still => Charged]_cdpVars
        <=> [ feeBps' = feeBps /\ (\A u \in Users : position'[u].age =< position[u].age)
              => Owed' + totalBurned' - totalBurned =< Owed + totalMinted' - totalMinted ]_cdpVars
  BY DEF Charged
<1> HIDE DEF Still
<1> QED
  BY <1>1, <1>2, CdpInvariance, PTL DEF Spec, NothingPaidTwice

=============================================================================
