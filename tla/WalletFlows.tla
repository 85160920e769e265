----------------------------- MODULE WalletFlows -----------------------------
(***************************************************************************)
(* The two transactions a user can send from the web application           *)
(* (src/web/components/WalletFlows.jsx on the throne and the redeem page): *)
(* what a button captures, what the wallet signs, what the chain does with *)
(* it and what the page reports.                                           *)
(*                                                                         *)
(* A press starts a run, an asynchronous function that awaits the wallet   *)
(* and a receipt once per call.  Nothing keeps the user from pressing      *)
(* again, leaving the page, or switching the wallet's chain meanwhile; the *)
(* price moves and others take the throne.  WETH of the user is ample.     *)
(***************************************************************************)
EXTENDS Units

CONSTANTS
  CHAIN_ID, OtherChains,
  PRICE_DIGITS,        \* digits after the point of a displayed figure
  OpeningPrice, Decay, \* of the chain's Dutch price, in raw units
  Holding, Supply, Backing,   \* VUX of the user, total supply, WETH of the reserve
  Settlements,         \* of a takeover: <<WETH to the reserve, VUX to the departing King>>
  Texts,               \* what the user types into the amount field
  MaxRuns, MaxMoves    \* presses, and moves of the world around the page

Chains == {CHAIN_ID} \cup OtherChains

ASSUME WalletAssumption ==
  /\ CHAIN_ID \notin OtherChains
  /\ PRICE_DIGITS \in 0..DECIMALS
  /\ OpeningPrice \in Nat /\ Decay \in Nat \ {0}
  /\ Holding \in Nat /\ Supply \in Nat /\ Holding < Supply /\ Backing \in Nat
  /\ Settlements \subseteq Nat \X Nat
  /\ None \notin Nat \X Nat
  /\ \A text \in Texts :
       text.kind = "decimal" => text.whole \in Seq(0..9) /\ text.frac \in Seq(0..9)

VARIABLES
  wallet,    \* connected, chain: what the extension is set to
  page,      \* what the last render saw: route, connected, chain, price, hard, text;
             \* before: the presses made before this page was mounted
  runs,      \* presses: flow, arg, call, state; history: shown
  status,    \* flow -> kind, run: the component's transaction state
  mempool,   \* signed transactions in nonce order: run, call, arg, chain
  receipts,  \* history: run, call, ok, amount, payout, hard before it
  price, allowance, vux, hard,    \* the chain; hard is <<B, S>>
  reigning,  \* the user is the King
  moves

onChain == <<price, allowance, vux, hard, reigning, receipts>>
vars == <<wallet, page, runs, status, mempool, onChain, moves>>

Idle == [kind |-> "idle", run |-> 0]

Init ==
  /\ wallet = [connected |-> FALSE, chain |-> CHAIN_ID]
  /\ page = [route |-> "throne", connected |-> FALSE, chain |-> CHAIN_ID,
             price |-> None, hard |-> None, text |-> EmptyText, before |-> 0]
  /\ runs = <<>> /\ mempool = <<>> /\ receipts = <<>>
  /\ status = [take |-> Idle, redeem |-> Idle]
  /\ price = OpeningPrice /\ allowance = [c \in Chains |-> 0]
  /\ vux = Holding /\ hard = <<Backing, Supply>> /\ reigning = FALSE
  /\ moves = 0

-----------------------------------------------------------------------------
\* The world around the page.
Move == moves < MaxMoves /\ moves' = moves + 1

\* The user connects, disconnects or switches the wallet, in the extension or with
\* the page's buttons.
SetWallet(connected, chain) ==
  /\ Move
  /\ <<connected, chain>> # <<wallet.connected, wallet.chain>>
  /\ wallet' = [connected |-> connected, chain |-> chain]
  /\ UNCHANGED <<page, runs, status, mempool, onChain>>

\* The Dutch price falls.
PriceFalls ==
  /\ Move /\ price >= Decay
  /\ price' = price - Decay
  /\ UNCHANGED <<wallet, page, runs, status, mempool, allowance, vux, hard, reigning, receipts>>

\* Rig.take: the price doubles, the reserve gains, and VUX is minted to the King
\* who departs.
Settle(toReserve, toKing) ==
  /\ price' = 2 * price
  /\ hard' = <<hard[1] + toReserve, hard[2] + toKing>>
  /\ vux' = IF reigning THEN vux + toKing ELSE vux

\* Somebody else takes the throne, from the user or from another.
Displaced ==
  /\ Move
  /\ \E s \in Settlements : Settle(s[1], s[2])
  /\ reigning' = FALSE
  /\ UNCHANGED <<wallet, page, runs, status, mempool, allowance, receipts>>

-----------------------------------------------------------------------------
\* The page is rendered again with the account wagmi reports.
SyncAccount ==
  /\ page' = [page EXCEPT !.connected = wallet.connected, !.chain = wallet.chain]
  /\ UNCHANGED <<wallet, runs, status, mempool, onChain, moves>>

\* A read of the page in view is answered, or drops what it had.
ReadAnswered ==
  /\ page' = IF page.route = "throne" THEN [page EXCEPT !.price = price]
             ELSE [page EXCEPT !.hard = hard]
  /\ UNCHANGED <<wallet, runs, status, mempool, onChain, moves>>

ReadFailed ==
  /\ page' = [page EXCEPT !.price = None, !.hard = None]
  /\ UNCHANGED <<wallet, runs, status, mempool, onChain, moves>>

Type(text) ==
  /\ page.route = "redeem"
  /\ page' = [page EXCEPT !.text = text]
  /\ UNCHANGED <<wallet, runs, status, mempool, onChain, moves>>

\* Leaving a page unmounts it: its reads and its transaction state are gone, the
\* runs it started are not.
Navigate ==
  /\ Move
  /\ page' = [page EXCEPT !.route = IF @ = "throne" THEN "redeem" ELSE "throne",
                          !.price = None, !.hard = None, !.text = EmptyText,
                          !.before = Len(runs)]
  /\ status' = [take |-> Idle, redeem |-> Idle]
  /\ UNCHANGED <<wallet, runs, mempool, onChain>>

-----------------------------------------------------------------------------
\* The component's state belongs to its latest run to speak; one that was unmounted
\* hears nothing, and one mounted since has a state of its own.
Report(r, flow, kind) ==
  status' = IF r > page.before
            THEN [status EXCEPT ![flow] = [kind |-> kind, run |-> r]] ELSE status

\* useAcceptedChain, as of the last render.
OnAcceptedChain == page.connected /\ page.chain = CHAIN_ID

Press(flow, arg, call, shown) ==
  /\ Len(runs) < MaxRuns
  /\ OnAcceptedChain
  /\ runs' = Append(runs, [flow |-> flow, arg |-> arg, call |-> call,
                           state |-> "wallet", shown |-> shown])
  /\ Report(Len(runs) + 1, flow, "pending")
  /\ UNCHANGED <<wallet, page, mempool, onChain, moves>>

\* The figure above the button, and what a reader takes it for.
MaximumShown(maxPrice) == Reads(FormatUnits18(maxPrice, PRICE_DIGITS), PRICE_DIGITS)

\* TakeFlow: the price of the render is captured as the maximum.
PressTake ==
  /\ page.route = "throne" /\ page.price # None
  /\ Press("take", page.price, "approve", page.price)

\* RedeemFlow: the raw amount is captured; it needs no quote.
PressRedeem ==
  LET q == ParseUnits18(page.text)
  IN  /\ page.route = "redeem" /\ q # None
      /\ q > 0
      /\ Press("redeem", q, "redeem",
               [text |-> page.text, hard |-> page.hard,
                quote |-> IF page.hard = None THEN None
                          ELSE PreviewRedeemRaw(page.hard[1], page.hard[2], q)])

\* A call that re-reads the price when it is sent.
ArgumentNow(r) ==
  IF runs[r].flow = "take" /\ page.price # None THEN page.price ELSE runs[r].arg

\* The argument of every call of a run is the one its press captured.
Argument(r) == runs[r].arg

\* A send that trusts the check made by the render.
SendsAnywhere == TRUE

\* `chain: acceptedChain`: viem refuses to send from a wallet on another chain.
SendsHere == wallet.chain = CHAIN_ID

\* writeContract: the wallet signs the current call of the run.
Sign(r) ==
  /\ runs[r].state = "wallet" /\ SendsHere
  /\ mempool' = Append(mempool, [run |-> r, call |-> runs[r].call, arg |-> Argument(r),
                                 chain |-> wallet.chain])
  /\ runs' = [runs EXCEPT ![r].state = "sent"]
  /\ UNCHANGED <<wallet, page, status, onChain, moves>>

\* The run ends with an error: the user declined, the chain was not the accepted
\* one, or the wait for the receipt failed.
Ends(r) ==
  /\ runs[r].state \in {"wallet", "sent"}
  /\ runs' = [runs EXCEPT ![r].state = "ended"]
  /\ Report(r, runs[r].flow, "error")
  /\ UNCHANGED <<wallet, page, mempool, onChain, moves>>

ReceiptOf(r) ==
  {i \in 1..Len(receipts) : receipts[i].run = r /\ receipts[i].call = runs[r].call}

\* waitForTransactionReceipt resolves, with a reverted receipt too: the next call
\* follows the approval, and success the last.
Confirmed(r) ==
  /\ runs[r].state = "sent" /\ ReceiptOf(r) # {}
  /\ IF runs[r].call = "approve"
     THEN /\ runs' = [runs EXCEPT ![r].call = "take", ![r].state = "wallet"]
          /\ Report(r, runs[r].flow, "pending")
     ELSE /\ runs' = [runs EXCEPT ![r].state = "ended"]
          /\ Report(r, runs[r].flow, "success")
  /\ UNCHANGED <<wallet, page, mempool, onChain, moves>>

-----------------------------------------------------------------------------
\* What the chain does with a signed transaction.  The supply floor of redeem never
\* binds: the seed below it is the reserve's, not the user's.
Succeeds(t) ==
  CASE t.call = "approve" -> TRUE
    [] t.call = "take"    -> price <= t.arg /\ price <= allowance[CHAIN_ID]
    [] t.call = "redeem"  -> t.arg <= vux

Payout(q) == (hard[1] * q) \div hard[2]

\* The next transaction in nonce order is included, or reverts in its block.
Include ==
  /\ mempool # <<>>
  /\ LET t  == Head(mempool)
         ok == t.chain = CHAIN_ID /\ Succeeds(t)
     IN  /\ mempool' = Tail(mempool)
         /\ receipts' = Append(receipts,
              [run |-> t.run, call |-> t.call, ok |-> ok, hard |-> hard,
               amount |-> IF t.call = "take" THEN price ELSE t.arg,
               payout |-> IF t.call = "redeem" THEN Payout(t.arg) ELSE 0])
         /\ allowance' = IF t.call = "approve" THEN [allowance EXCEPT ![t.chain] = t.arg]
                         ELSE IF t.call = "take" /\ ok
                         THEN [allowance EXCEPT ![CHAIN_ID] = @ - price]
                         ELSE allowance
         /\ \/ /\ t.call = "take" /\ ok
               /\ \E s \in Settlements : Settle(s[1], s[2])
               /\ reigning' = TRUE
            \/ /\ t.call = "redeem" /\ ok
               /\ vux' = vux - t.arg
               /\ hard' = <<hard[1] - Payout(t.arg), hard[2] - t.arg>>
               /\ UNCHANGED <<price, reigning>>
            \/ /\ t.call = "approve" \/ ~ok
               /\ UNCHANGED <<price, vux, hard, reigning>>
  /\ UNCHANGED <<wallet, page, runs, status, moves>>

Next ==
  \/ \E connected \in BOOLEAN, c \in Chains : SetWallet(connected, c)
  \/ PriceFalls \/ Displaced
  \/ SyncAccount \/ ReadAnswered \/ ReadFailed \/ Navigate
  \/ \E text \in Texts : Type(text)
  \/ PressTake \/ PressRedeem
  \/ \E r \in 1..Len(runs) : Sign(r) \/ Ends(r) \/ Confirmed(r)
  \/ Include

Spec == Init /\ [][Next]_vars

-----------------------------------------------------------------------------
Done(call) == {i \in 1..Len(receipts) : receipts[i].call = call /\ receipts[i].ok}

\* A press is charged at most once, and never more than the price of the render it
\* was made in, however the price moved and whatever other runs were under way
\* ("the closure already provides the freeze that is actually wanted",
\* src/web/components/WalletFlows.jsx:155-156).
ChargedWithinPressedPrice ==
  \A i \in Done("take") :
    /\ receipts[i].amount <= runs[receipts[i].run].shown
    /\ \A j \in Done("take") : receipts[j].run = receipts[i].run => j = i

\* "Maximum price you will pay": nobody is charged more than the figure shown when
\* the button was pressed (src/web/lib/truth-copy.js:173-175; "the number shown above
\* the button is the number that gets sent", src/web/components/WalletFlows.jsx:149-150).
NeverChargedAboveShown ==
  \A i \in Done("take") :
    receipts[i].amount <= MaximumShown(runs[receipts[i].run].shown)

\* The rig may spend no more than a price the user confirmed; on another chain the
\* same address was never given anything, wherever the wallet went meanwhile.
AllowanceIsConfirmed ==
  /\ \A c \in OtherChains : allowance[c] = 0
  /\ allowance[CHAIN_ID] > 0 =>
       \E r \in 1..Len(runs) : runs[r].flow = "take" /\ allowance[CHAIN_ID] <= runs[r].arg

\* A redemption burns what was typed, to the unit, and pays the quote shown with it
\* when the reserve is still in the state the quote was made from.
BurnsWhatWasTyped ==
  \A i \in Done("redeem") :
    LET seen == runs[receipts[i].run].shown
        text == seen.text
    IN  /\ receipts[i].amount * TenTo[Len(text.frac)]
             = ValueOf(text.whole \o text.frac) * Scale
        /\ seen.hard = receipts[i].hard => receipts[i].payout = seen.quote

\* "Pending / success / revert are reported as what they are": a flow that reports
\* success has its run's last call done.
SuccessIsASuccess ==
  \A flow \in {"take", "redeem"} :
    status[flow].kind = "success" =>
      \E i \in Done(flow) : receipts[i].run = status[flow].run
=============================================================================
