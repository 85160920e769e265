------------------------------- MODULE Genesis -------------------------------
(***************************************************************************)
(* The launch (src/src/GenesisDeployer.sol): one transaction, the          *)
(* constructor of the deployer, creates every contract, opens the pool,    *)
(* provisions the position of PolPosition and hands it to the Safe.  The   *)
(* addresses of the contracts are predictable: before the launch anyone    *)
(* may send WETH to them.  After it the position lives on.                 *)
(*                                                                         *)
(* Nothing happens between the steps but what the launch itself calls; a   *)
(* check that fails undoes all of it.                                      *)
(***************************************************************************)
EXTENDS PolPosition

CONSTANTS
  GENESIS_POL_SUPPLY, GENESIS_RESERVE_SEED,
  PREMIUM_NUM, PREMIUM_DEN,
  ParamSets,      \* genesis inputs that are tried
  MaxDonations

S0 == GENESIS_POL_SUPPLY + GENESIS_RESERVE_SEED

ASSUME GenesisAssumption ==
  /\ GENESIS_POL_SUPPLY \in Nat /\ GENESIS_RESERVE_SEED \in Nat
  /\ ParamSets \subseteq
       [value : Nat, b0 : Nat, wPol : Nat, p0Num : Nat \ {0}, p0Den : Nat \ {0},
        opening : Nat, committed : BOOLEAN, sqrtP0X96 : Nat]

VARIABLES
  phase,      \* founding, the steps, launched, aborted
  params,     \* GenesisParams; committed: of this deployer and salt
  deployer,   \* the deployer's WETH and VUX; history: wethPreSelf, sanitized
  reserve,    \* the Reserve's WETH and VUX
  roles,      \* who holds the treasury's roles
  king,
  latched,    \* the pool deployer's one-shot
  donated     \* history: WETH sent to the predicted addresses

launch == <<phase, params, deployer, reserve, roles, king, latched, donated>>
vars   == <<launch, position>>

\* The recorded price, as the tool encodes it for the order of the tokens.
Recorded(p) == IF vuxFirst THEN EncodeSqrtP0(p.p0Num, p.p0Den)
                           ELSE EncodeSqrtP0(p.p0Den, p.p0Num)

Init ==
  /\ PositionInit
  /\ phase = "founding" /\ params \in {p \in ParamSets : p.sqrtP0X96 = Recorded(p)}
  /\ deployer = [weth |-> 0, vux |-> 0, preSelf |-> 0, sanitized |-> 0]
  /\ reserve = [weth |-> 0, vux |-> 0]
  /\ roles = {} /\ king = "" /\ latched = FALSE /\ donated = 0

-----------------------------------------------------------------------------
\* WETH reaches the address of the deployer, the Reserve or the treasury.
Donate(to) ==
  /\ phase = "founding" /\ donated < MaxDonations
  /\ donated' = donated + 1
  /\ deployer' = IF to = "deployer" THEN [deployer EXCEPT !.weth = @ + 1] ELSE deployer
  /\ reserve' = IF to = "reserve" THEN [reserve EXCEPT !.weth = @ + 1] ELSE reserve
  /\ held' = IF to = "treasury" THEN Plus(held, <<0, 1>>) ELSE held
  /\ UNCHANGED <<phase, params, roles, king, latched, pool, polPrincipal, ctx, op,
                 yielded, earned, moves>>

\* A step of the launch: it goes on, or one of its checks fails.
Goes(from, checks, to) ==
  /\ phase = from
  /\ phase' = IF checks THEN to ELSE "aborted"
  /\ UNCHANGED <<params, donated>>

\* 0. Only msg.value is wrapped, after a look at what was there.
SnapshotAndWrap ==
  /\ Goes("founding", params.value = params.wPol + params.b0, "core")
  /\ deployer' = [weth |-> deployer.weth + params.value, vux |-> deployer.vux,
                  preSelf |-> deployer.weth, sanitized |-> 0]
  /\ UNCHANGED <<reserve, roles, king, latched, position>>

\* A Reserve that insists on being born empty.
ReserveAsFound == [swept |-> 0, left |-> reserve.weth]

\* The Reserve's constructor sends what it finds to its creator.
SanitizedReserve == [swept |-> reserve.weth, left |-> 0]

\* 1-3. Reserve, Rig and VUX; the token mints to the deployer and the Reserve.
DeployCore ==
  /\ Goes("core", SanitizedReserve.left = 0, "pool")
  /\ deployer' = [weth |-> deployer.weth + SanitizedReserve.swept,
                  vux |-> deployer.vux + GENESIS_POL_SUPPLY,
                  preSelf |-> deployer.preSelf, sanitized |-> SanitizedReserve.swept]
  /\ reserve' = [weth |-> SanitizedReserve.left, vux |-> GENESIS_RESERVE_SEED]
  /\ king' = "reserve"
  /\ UNCHANGED <<roles, latched, position>>

\* 4. The pool, once and for the committed deployer, at the recorded price.
DeployAndVerifyCanonicalPool ==
  /\ Goes("pool", /\ MIN_SQRT_RATIO <= params.sqrtP0X96 /\ params.sqrtP0X96 < MAX_SQRT_RATIO
                  /\ ~latched /\ params.committed, "treasury")
  /\ sqrtP' = params.sqrtP0X96 /\ latched' = TRUE
  /\ UNCHANGED <<deployer, reserve, roles, king, vuxFirst, liquidity, pending, owed,
                 treasury, yielded, earned, moves>>

\* 5-6. The treasury gives its roles to its creator.
DeployTreasuryAndLens ==
  /\ Goes("treasury", TRUE, "provision")
  /\ roles' = {"deployer"}
  /\ UNCHANGED <<deployer, reserve, king, latched, position>>

\* 7. The deployer's VUX and the WETH of the position go to the treasury, ...
SendProvision ==
  /\ Goes("provision", deployer.weth >= params.wPol, "mint")
  /\ held' = Plus(held, <<deployer.vux, params.wPol>>)
  /\ deployer' = [weth |-> deployer.weth - params.wPol, vux |-> 0,
                  preSelf |-> deployer.preSelf, sanitized |-> deployer.sanitized]
  /\ UNCHANGED <<reserve, roles, king, latched, pool, polPrincipal, ctx, op,
                 yielded, earned, moves>>

\* ... which mints the position; the pool of that moment calls back and returns, ...
ProvisionPol ==
  /\ phase = "mint" /\ UNCHANGED <<launch, moves>>
  /\ \/ liquidity = 0 /\ MintPolPosition(<<GENESIS_POL_SUPPLY, params.wPol>>)
     \/ MintCallback("pool", ChargeFor(op.liquidity))
     \/ LiquidityAdded

PolMintFails ==
  /\ phase = "mint" /\ liquidity = 0
  /\ IF op = NoOp THEN ~CanAdd(<<GENESIS_POL_SUPPLY, params.wPol>>)
     ELSE ~Consumed /\ ~(/\ Within(ChargeFor(op.liquidity), ctx.max)
                         /\ Within(ChargeFor(op.liquidity), held))
  /\ phase' = "aborted"
  /\ UNCHANGED <<params, deployer, reserve, roles, king, latched, donated, position>>

\* ... and the Reserve receives B0.
FundReserve ==
  /\ liquidity # 0 /\ op = NoOp
  /\ Goes("mint", deployer.weth >= params.b0, "handoff")
  /\ deployer' = [deployer EXCEPT !.weth = @ - params.b0]
  /\ reserve' = [reserve EXCEPT !.weth = @ + params.b0]
  /\ UNCHANGED <<roles, king, latched, position>>

\* 8-9. The Safe takes over; what is left is the donations, to the unit.
HandOffAndSweep ==
  /\ Goes("handoff", deployer.weth = deployer.preSelf + deployer.sanitized, "verify")
  /\ roles' = {"safe"}
  /\ deployer' = [deployer EXCEPT !.weth = 0]
  /\ held' = Plus(held, <<0, deployer.weth>>)
  /\ UNCHANGED <<reserve, king, latched, pool, polPrincipal, ctx, op, yielded, earned, moves>>

\* P0 is the premium over B0 / S0, exactly, and the opening fits under the cushion.
BootstrapEconomics ==
  /\ params.p0Num * PREMIUM_DEN * S0 = params.p0Den * PREMIUM_NUM * params.b0
  /\ params.opening <= AtLeast(MulDiv(params.p0Num, S0, params.p0Den) - params.b0, 0)

\* 10. The closing verification.
ClosingSelfVerification ==
  /\ Goes("verify",
          /\ reserve = [weth |-> params.b0, vux |-> GENESIS_RESERVE_SEED]
          /\ deployer.vux = 0
          /\ BootstrapEconomics
          /\ sqrtP = params.sqrtP0X96 /\ liquidity # 0 /\ latched
          /\ king = "reserve" /\ roles = {"safe"},
          "launched")
  /\ UNCHANGED <<deployer, reserve, roles, king, latched, position>>

Launch ==
  \/ SnapshotAndWrap \/ DeployCore \/ DeployAndVerifyCanonicalPool
  \/ DeployTreasuryAndLens \/ SendProvision \/ ProvisionPol \/ PolMintFails \/ FundReserve
  \/ HandOffAndSweep \/ ClosingSelfVerification

Live == phase = "launched" /\ (Inside \/ Outside) /\ UNCHANGED launch

Next ==
  \/ \E to \in {"deployer", "reserve", "treasury"} : Donate(to)
  \/ Launch
  \/ Live

Spec == Init /\ [][Next]_vars

-----------------------------------------------------------------------------
\* Inputs that fulfil what the launch demands of them.
Acceptable ==
  /\ params.value = params.wPol + params.b0 /\ params.committed /\ BootstrapEconomics
  /\ MIN_SQRT_RATIO < params.sqrtP0X96 /\ params.sqrtP0X96 < MAX_SQRT_RATIO
  /\ LET amounts == PairVuxWeth(GENESIS_POL_SUPPLY, params.wPol)
     IN  AffordableLiquidity(amounts[1], amounts[2], params.sqrtP0X96) > 0

\* Nobody can stop or distort the launch by sending WETH ahead of it: acceptable
\* inputs, and no others, end in a launch whose figures are exact, whose donations
\* are all in the treasury, and whose price is the recorded one to the last unit.
LaunchIsExact ==
  /\ phase = "aborted" => ~Acceptable
  /\ phase = "launched" => Acceptable
  /\ phase = "launched" /\ moves = 0 /\ op = NoOp /\ yielded = Nothing =>
       /\ reserve.weth = params.b0 /\ deployer.weth = 0
       /\ held[2] + polPrincipal[2] = params.wPol + donated
       /\ held[1] + polPrincipal[1] + reserve.vux = S0
       /\ IF vuxFirst THEN WithinOneUlp(params.p0Num, params.p0Den, sqrtP)
                      ELSE WithinOneUlp(params.p0Den, params.p0Num, sqrtP)
=============================================================================
