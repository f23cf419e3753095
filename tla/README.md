# zenvelope: a verification project

zenvelope puts shielded ZEC behind a link. Whoever holds the link can open the
envelope (find the notes paid to it, see which are spent) and send the money on
(one transaction that spends every note, to an address of their choice, or into
a swap). There is no account and no server state: everything is derived from the
secret in the link, the Zcash chain read through lightwalletd gateways, and, for
the Solana exits, the services that swap and route.

This directory holds TLA+ modules translated from the source, TLC configurations
that check them on small instances, and proofs that TLAPS checks for every value
of the constants.

## 1. Inventory

| Part | State it keeps | Operations | Talks to |
|---|---|---|---|
| Block walk (`crates/core/src/scan.rs`, `grpc.rs: open_envelope_inner`) | `watch`, `mode`, `chunk`, `hits`, `early`, counters of one call | choose a gateway, first block, chunks of 64, tail, pass 2, `finish_open` | a gateway; progress callbacks to the page |
| Gateway race and failover (`gateway.rs`) | the order of gateways of a session | `choose` (1.5 s race), `Failover::call` (6 s header deadline, next gateway, never for `SendTransaction`) | lightwalletd |
| Sweep (`sweep.rs`, `grpc.rs: sweep_envelope_inner`) | none between calls | witness, keys, prove, broadcast | a gateway; stage callbacks |
| Spend building (`spend.rs`) | `WitnessScan`: a tree, a witness per note | tree replay, amounts, addresses, proof | none |
| Open page (`openFlow.ts`, `Open.tsx`) | `OpenState`, the secret in a ref, `runId` | open, attempt, note, result, failed, retry, recheck | core |
| Send-on flow (`sweepFlow.ts`, `SendOn.tsx`, `destination.ts`) | `SendState`, the choice, the address box, a generated wallet, two gates, the swap plan, `runId` | pick, type, continue, hand over a plan, review, send, result, failed | core, open page (`onCheckAgain`), the Solana exit inside it |
| Core worker and RPC (`client.ts`, `worker.ts`, `rpc.ts`) | pending calls, `dead`, `loading` | call, progress, stage, result, error | page and wasm |
| Create page and groups (`Create.tsx`, `group.ts`) | the form, the submit under way, the result, the wizard's step | submit (load, height, one row after another), steps, make another | core, payment watch |
| Payment watch (`paymentWatch.ts`) | phase, next look's height per envelope, one timer | tick, hide, show, restart, dispose | core |
| Amounts (`amount.ts`, `spend.rs`) | none | fees, minimums, split | page and core, separately |
| Solana exit (`solanaFlow.ts`, `oneclick.ts`, `SolanaExit.tsx`, `DestinationChoices.tsx`) | phase, asset, destination, refund address, quote, deposit, the route's offer and switch | five screens; quotes and deposits that answer late | 1Click, a Solana wallet, the send-on page (`onPlan`) |
| Swap tracker (`SwapTracker.tsx`) | the status on the screen | ask, wait, ask again, stop | 1Click |
| Private route (`routeRun.ts`, `multihop.ts`, `multihopFlow.ts`, `MultihopTracker.tsx`, `resume.ts`) | none in the browser; a transfer at MultiHopper, balances on Solana | fund, create, sign and broadcast, watch, empty the router; resume from the link | MultiHopper, Solana RPC |
| Proxy functions (`netlify/functions`) | a counter per instance | allow list, rate limit, ownership check | MultiHopper, Solana RPC |

What is hard here, and so what the properties are about:

* **Order of events inside one call.** The walk reports an amount before it has
  read the chain to its tip, switches what it looks for after one block, and
  buffers blocks. A note paid and spent inside one chunk, a spend in the tail and
  a birthday above the tip are the cases where an implementation goes wrong.
* **Several devices, one link, lagging gateways.** Two pages hold the same notes,
  build against different tips and broadcast to different nodes.
* **One worker for everybody.** The page makes every call of the core through one
  worker, in order; it may fail to load, answer minutes later or die, and whoever
  waits must hear of it.
* **Awaits that return to a page that moved on.** Verdicts on an address, quotes,
  deposits and looks at the chain all come back late, to state a click has changed.
* **The same sum done twice.** The page promises an amount, the rail is asked to
  reserve a deposit for it, and the core computes what it pays, each on its own.
* **A chain that takes a block back** while the sender's page waits for the payment.
* **A broadcast whose answer is lost.** `SendTransaction` has a deadline, and
  what the node made of the request is unknown when it passes.
* **Tabs that close.** Nothing is persisted; the link is opened again and the
  chain decides.

`PROJECT.json` lists every such hazard at its line, with the properties that
would catch it, or the reason why none does yet.

## 2. Modules

```
EnvelopeChain ---- EnvelopeAnswer        what an open promises, in one look
   |   |     \            ^
   |   |      BlockScan --'  (Promise)   the chunked, two-phase walk
   |   |       |   |   \
   |   |       |   |    MCBlockScan, BlockScanProofs
   |   |       |   |
   |  SweepWitness |                     the witness stage of a sweep
   |   |       \   |                     (SweepWitnessProofs is about it)
   |   |        OpenSweep                an open, then a sweep of what it found
   |   |          |   \
   |   |          |    MCOpenSweep
   |   |     OpenSweepProofs             (rests on BlockScanProofs, SweepWitnessProofs)
   |   |
   SweepRace                             tabs x gateways x chain
      |     \
  MCSweepRace  SweepRaceProofs

   CoreRpc    PaymentWatch ------------- PaymentWatchProofs
        \      /        ^
       CreateSide ------'  (Spec)        the sender's side as one system
        |    \
        |     CoreCalls  (Calls!Spec)    what a caller may expect of the core
        |
   CreateSideProofs                      (rests on PaymentWatchProofs)

   SweepAmounts                          the fees, on the page and in the core
        |
   SolanaExit   SwapTracker              the exit inside the send-on page; the paid swap
            \   /
           SendOn                        the send-on page
             |
        SendOnProofs                     (the amounts, too)

   RouteRun                              pages x one transfer x the router wallet
      |     \
  MCRouteRun  RouteRunProofs
```

**`EnvelopeChain`** is the vocabulary. A note stands for its transaction, its
nullifier and its value; a chain is two partial functions, the height each note
was paid at and the height it was spent at. `View(pays, spends, a, b)` is the
answer an open of `a .. b` should give.

**`EnvelopeAnswer`** is the abstract promise: choose a range, perhaps reveal the
first block's notes, then answer with `View`, or fail at any time.

**`BlockScan`** is `open_envelope_inner`. `FirstBlock`, `NextBlock` and
`EndOfStream` are the three parts of the stream loop (`grpc.rs:134-181`), with
the run of the scan they make (`scan_compact_blocks_in`) inside the same action;
`ScanStart` is `scan_range`; `FinishOpen` and `AllWatched` are `finish_open` and
its refusal. `BreakOff` is every early return. The chain does not change during
one call because a call only reads up to the tip it started with, and blocks are
not taken back in this model.

**`SweepRace`** composes the rest. Each tab has the phase of `openReducer`
(`page`), of `sendReducer` (`send`), how far its `sweep_envelope` call has come
(`stage`) and the transaction it made (`sweep`). An open is a tip taken from some
gateway (`GetTip`), perhaps an early reveal, and an answer: `View` up to that
tip, which is what `BlockScan` is proved to give. `Broadcast` makes one transaction that
spends every unspent note of the answer and posts it to the gateway that leads.
The nodes (`Judge`, `Refuse`), the wire (`Lose`), gossip and miners are external
and modelled from how the code reads them: error code 0, -25 or any other, or no
answer at all.

| Code | Action |
|---|---|
| `openReducer: open / retry / recheck` + `scan` | `OpenEnvelope`, `Retry`, `Recheck` |
| `gateway::choose` | `GetTip`, `LeadAndTip` |
| `openReducer: note / result / failed`, `runOpen` | `RevealEarly`, `WalkDone`, `WalkFails` |
| `sendReducer: review / choose / send` | `Review`, `ChooseAgain`, `Send` |
| `sweep_envelope_inner`, `broadcast` | `Broadcast`, `BuildFails` |
| `sendReducer: result / failed` | `Answered`, `Unanswered` |
| closing or reloading the page | `Reload` |

Abstractions: no reorganisation of the chain; a stream that ends without an error
is complete (the code keeps no count of its own, see the hazards); the parsing of the
link and the route probe are left out; the choice of a destination, its gates and
the dry run are in `SendOn`, the witnesses of a sweep in `SweepWitness`. Two successive sweeps of the
same notes from one tab are two transactions: the proof and the padding are
random (`no` tells them apart).

**`SweepWitness`** is the witness stage of `sweep_envelope`: `sweep` over `WitnessScan`.
A tree is the sequence of its commitments and is its own root (two trees have one root
only if they hold the same commitments in the same order), a Merkle path is a leaf's
position and the root it leads to. `AppendLeaf` is the inner loop with its witness slots,
the sealed tree and the note met twice; `TakeBlock` is the stream, which by a fault
skips, repeats, drops or reorders; `RootsServed` and `Finish` are the two root checks.
The tree state a gateway serves is taken to be the chain's: the code compares its replay
with it and has nothing else to go by. **`OpenSweep`** runs it after `BlockScan`: the notes
an open reported unspent, in any order, on the same chain, with a tip that may lag. What it
takes of a chain is that a note is a commitment of the block it was paid in (`OnLedger`).
`SweptLinks` and `SweptTips` bound the opens that are swept; `MCOpenSweep` gives TLC one
ledger for each chain, with somebody else's commitment first in every block.

| Code | Action |
|---|---|
| `sweep`: no note, a note twice, block 0 | `Refuse` |
| the tip, `anchor_height`, the frontier, the first block | `Begin` |
| `WitnessScan::append_block` | `AppendLeaf` |
| the block stream, `roots_at_note_blocks` | `TakeBlock`, `ReplayEnds` |
| the ordering guard, `WitnessScan::finish` | `CheckRoots` |
| a call or a stream that fails | `CallFails` |

**`CoreRpc`** is the channel between page and worker: `send` (`Send`), the worker's two
handlers (`Take`, `Serve`, `Finish`), its one load (`Load`), the message and the error
listener (`Receive`, `Die`). The code's ids are never used twice; here one is used again, and
only when nothing of its call is left (`FreeIds`). That bounds the calls under way by the
number of ids, and a page at that bound sends nothing (`Send`); `IdsAssumption` asks for one
id at least, and the code never runs out. **`CoreCalls`** is what a caller may
expect, without ids, messages or a worker.

**`PaymentWatch`** is `createPaymentWatch` with the chain it watches: blocks are mined,
gateways lag, and a reorganisation takes the last block back. `Tick`, `LookAnswers` and
`LookFails` are the three places `tick()` resumes, `Continue` is its loop from there to
the next await or the next timer. Time is left out: at any tick two hours may have
passed (`stopped`) or the tab may have been out of sight for long (`paused`).

**`CreateSide`** composes the two with the create page: the submit with its three awaits
and `generateGroup`'s four calls a row, the result, the wizard of one envelope, "Make
another". Every call of the page and of the watch goes through `CoreRpc`; an ask carries
what the call was made with, so an answer that reached the wrong caller would show.
Secrets may repeat (the code checks; so does `SeenSecret`).

| Code | Action |
|---|---|
| `onSubmit`; `await loadCore()`, `await fetchChainHeight()` | `Submit`; `CoreAwaited`, `HeightAwaited` |
| `generateGroup` | `GroupGoesOn` (in `Deliver`) |
| the seal has played; `usePaymentWatch` starts | `ShowResult`, `Open` |
| wizard of one envelope | `TickSaved`, `SaveContinue`, `PayBack`, `SkipToShare`, `StepWhenPaid` |
| `reset`, `dispose` | `Reset`, `Dispose` |
| `handleInit`, `handleCall` | `WorkerTakes`, `WorkerLoads`, `WorkerInits`, `WorkerServes`, `WorkerThrows`, `WorkerLooks`, `WorkerLookFails` |
| the client's listeners | `Deliver`, `WorkerDies` |
| `tick`, `setHidden`, `restart` | `WatchTicks`, `Tab` |

**`SweepAmounts`** holds the arithmetic of `amount.ts` beside that of `spend.rs`. The page
counts actions by cases, the core rounds bytes up to actions.

**`SolanaExit`** is `solanaExitReducer` with the screens and requests of `SolanaExit.tsx`:
each action is what a click, a keystroke or an answer makes of the state, and what the
effects make of that (`Rendered`). A request carries what it was asked with (`asked`), and
answers in any order, late, with a failure, or gets something wrong: a reservation may come
back with an address that is not transparent, the other asset, another payee or another
refund address (`Echo`, at most `MaxLies` of them in one answer).
**`SwapTracker`** is the tracker of a paid swap.

**`SendOn`** puts them on the send-on page: the chooser, the address box whose verdicts come
from the core in the order asked, the generated wallet, both trust boundaries, the plan
that `onSwapPlan` classifies, checks and shows, the review, the sweep's arguments. A newer
keystroke does not recall a call: it keeps its place in the core's queue, and nobody listens
to its answer (`Unheard`, `Deaf`).

| Code | Action |
|---|---|
| the choices, the box, the wallet's box | `PickPaste`, `PickSolana`, `PickWalletHere`, `TypeAddress`, `WriteDown` |
| `onPickWallet` after its await, or its `walletError` | `CoreAnswers` (`"new"`) |
| `Continue`, the transparent boundary | `Continue`, `TickGate`, `LeaveGate` |
| the exit's screens | `Acknowledge`, `ToAsset`, `ChooseAsset`, `ChooseMode`, `PasteAddress`, `TypeTail`, `PickWallet`, `WalletAnswers`, `RefundTyped`, `StepBack`, `LeaveExit` |
| `askQuote`, `askPrivate` | `AskPrice`, `AskDeposit`, `AskPrivate` |
| their answers | `RailPrices`, `RailReserves`, `RailFails` |
| the route's offer, switch and gate | `OfferLands`, `ToggleRoute`, `AtRouteGate` |
| `onSwapPlan` before and after its awaits | `HandOver`, `CoreAnswers` (`PlanEnds`) |
| `chooseAgain`, `send`, what it ends on | `ChooseAgain`, `Send`, `SweepEnds` |
| the tracker | `PollAnswers`, `PollFails`, `PollAgain` |

`strays` remembers three answers the code takes no account of: "unvouched", of the rail on
an exit whose gates held when it asked and no longer do; "plan", of the core on a page
whose deposit screen was left; "wallet", words of the core in place of other words. A property names
those it excepts in its comment, and section 6 says what happens then. Left out: prices and
their display (an offer is ready, poor or off), the devnet plan, the warm-up of the
proving key, which the code starts early and awaits inside the worker.

**`RouteRun`** is the private route: the loop of `runRoute` as a program counter per
page (`pc`), the transfer MultiHopper keeps under the link's externalId (`mh`),
where each piece of the money is (`at`), the transactions of the route on chain
(`landed`) and those sent by a page that no longer waits for them (`strays`). A
page's `view` is the transfer as it was last reported to `mhReducer`, `screen` its
phase, `arrived` the flag of `finishRoute`, `refund` the button of a refund. Every page
of a link has the same router key and the same externalId; a page opened again knows
neither the asset nor, before a transfer exists, the wallet.

| Code | Action |
|---|---|
| `runRoute`: `byExternal` | `Lookup` |
| phase A: holdings, estimate, `fundingReached` | `FundingSeen` |
| `startRoute`, its answer lost | `Create`, `CreateLost` |
| `runBroadcast`: `prepare` | `Prepare`, `PrepareRefused` |
| `send`: `sendTransaction`, `confirm` | `Send`, `Confirmed`, `TxFailed`, `ConfirmTimesOut` |
| keeper report, `confirmBroadcast` | `KeeperReported`, `Reported` |
| its catch; any other error | `Stale`; `RequestFails` |
| phase B: `get` | `Poll` |
| `finishRoute`, `emptyRouter` | `Look`, `LookFails`, `EmptyTokens`, `EmptySol`, `EmptyFails` |
| the refund button | `SendBack` |
| "Try again" | `Retry` |
| closing a page; `probeRoute`, `resumeScreen`, `RouteResume` | `Close`; `Reopen`, `ReopenHalfBlind`, `Choose` |

The swap (`Deposit`), Solana (`Land`, `StrayLands`, `StrayDies`) and MultiHopper
(`KeeperStarts`, `Complete`, `GiveBack`, `RentBack`, `Expire`) are external. What is
taken of them: `create` is idempotent per externalId, `prepare` returns what is still
missing, a transaction that initialises what is there already fails while the keeper
funding succeeds twice, a transfer reported as refunded has its money back in the
router, a quote that is not signed may expire. Left out: amounts, fees and rents
(one keeper payment is enough; three pieces of money stand for the gift, its costs
and the rent), soft notes, step labels, the devnet mode.

## 3. Runs

| Run | Question | Bounds | Result |
|---|---|---|---|
| `block_scan` | Does the chunked, two-phase walk answer what one look at the range would, whatever the chain, the link and the tip? Is a sweep of what it found witnessed against the chain, or refused for a cause? | 2 notes, heights 0..5, chunks of 2, lookback 3: chunks are full, partial and empty, a payment and its spend fall in one chunk, in two, in the first block and in the tail. The open of the whole chain is swept: its notes are in one block or in two, next to each other or apart, in either order; 2 faults, a walk of at most 2 blocks past the newest note | holds |
| `two_devices` | Are the screens of two devices that race over lagging gateways true of the chain, and does each sweep go to one gateway and come back with the truth? | 2 tabs, 2 gateways, 2 notes in different blocks, 4 heights, 1 fault; tabs are symmetric | holds |
| `race_settles` | Does every tab reach a last screen, also from an early amount whose walk goes on or fails, and does the money move? | 2 tabs, 2 gateways, 1 note in the block the link names (so it is revealed early), 1 fault | holds, under `FairSpec` |
| `refund_link` | Does the same link open a refund again (DECISIONS D14)? | as `block_scan`, heights 0..3 | **violated** |
| `funds_safe` | Has nothing moved when the failed screen says so? | 1 tab, 1 unanswered call | **violated** |
| `race_lost` | Was nothing sent from here when the screen says so? | 1 tab, 1 unanswered call | **violated** |
| `route_two_pages` | Who is paid, what do the screens say and does the gift arrive when two pages, told two wallets, drive one route? | 2 pages, 2 wallets, a USDC gift, 2 transactions, 2 attempts, 2 sweeps, 2 looks, 1 closed page, 1 fault, quotes expire | holds, `GiftArrives` under `FairSpec` |
| `route_expired` | Does a link opened again pick up a stopped route? | 1 page, closed once, no fault | **violated**, under `FairSpec` |
| `route_early_look` | Is what is said to have arrived there? | 1 page, closed between two deposits, MultiHopper estimates a route of the costs alone | **violated** |
| `create_side` | Is every call answered, to the right caller and for ever; has the watch one driver; does it skip no payment; do the links open their rows? | 2 rows a result, 2 envelopes in a visit (a group of two, or one after the other), 3 calls at once, 3 heights, 2 payments, 1 block taken back, a gateway 1 behind | holds, the last two under `FairSpec` |
| `exit_side` | Is what is swept what was shown, quoted, checked and agreed to, however late verdicts, quotes and deposits come and whatever the rail gets wrong? Do the buttons come back, and does the tracker come to an end? | 100 000 zat in 3 notes, the fee of 30 000, 2 assets, 2 requests to the rail, 1 thing wrong in each answer, 2 changes of mind, 2 calls of the core at once | holds, the last two under `FairSpec` |
| `gates_deposit` | Do the exit's gates stop who takes the tick, or the key's tail, back (`solanaFlow.ts` 13-16)? | as `exit_side`, with USDC, an honest rail, 1 call at a time | **violated** |

Two notes are enough for every relation the properties speak of (a note of the
first block against a later one; a note spent against one unspent). Two gateways
are all the code has. A fault is a failed walk, a failed build, an unanswered
call, a refusal for the node's own reasons, or a reload. `MaxTries` bounds the
sweeps of one tab alive at a time, not how often it tries: the number of a sweep
that is gone is used again. In `create_side` two envelopes give a row that is answered while the other is
asked for, a repeated secret, a watch that outlives its page while the next one runs
(`Generations`), and looks at two rows in one round; three ids hold a load, a look of a
watch disposed of and a call of the next submit together. The reorganisation and the lag
are of one block each, so a look can be answered by a gateway on the block that goes
(`NeverSkips` needs the margin to cover it: `ReorgMargin` 0 with one block taken back is
the tightest case the assumption allows). In `exit_side` two requests and two changes of
mind are one answer that crosses one edit, and a second quote that overtakes it; or the two
screens from the quote back to the boundary, where the tick may be taken back while a price
is on its way (ticking is not counted with the changes of mind). One thing wrong in an answer
(`MaxLies`) is enough to tell every check of `checkSwapPlan` from the others, because each
looks at one field: with any one of its four conjuncts left out, or any one of the extra
deposit's, `DepositsAnswerThePlan` fails in this run; the theorem has all at once. One fault in
the runs of `SweepRace` is one lost answer and the retry after it, on the other gateway or the
same; the theorems have any number. 100 000
zat are enough for every destination, the private route's split included, and three
notes are past the grace actions, where the fee forms differ; `SendOnProofs` has
every other amount (`PageAndCoreAgreeOnAll`). `CHECK_DEADLOCK FALSE` stands where the system may
stop: a call ends, a chain reaches `MaxHeight`, every tab is on its last screen.

**Properties.** `AnswerExact`: the answer is `View`. `EarlyHonest`: the amount
shown early is never taken back. `WalkInv`: what was read is what was scanned or
is buffered after it, and every spend of a watched note in the scanned blocks is
recorded. `ImplementsPromise`: refinement of `EnvelopeAnswer`.
`ScreenMatchesChain`: notes offered were unspent at the tip of the walk, and
"already opened" is said of spent notes only. `SentStands`: the sweep behind
"Sent." waits, is mined, has expired or was outrun. `FailedIsHonest`: after an
*answered* call, a failed screen's sweep is nowhere and will be nowhere.
`CallInv`: one request, one gateway, one delivery, and an answer in flight is
true. `EveryTabSettles` and `EnvelopeEmptied` are the liveness properties.

For the sweep of an open: `WitnessExact`: every spend is proved with a path from its own note
to the chain's root at the anchor, which is at or above every note, whatever the gateways
served. `RefusedForACause`: with gateways that serve the chain as it is, no sweep of what an
open reported is refused.

For the sender: `OneDriver`: the watch is driven by its timer while it waits, by one look
while it checks, and by nothing otherwise. `NeverSkips`: where it looks next is never above
a payment the links can open (the birthday itself has no margin: a payment that a
reorganisation moves below it is one the links do not open). `FinalLinkCovers`: a final link starts at the first payment;
only on a chain that kept its blocks, for a payment taken back and mined higher leaves a
final link that starts below it, and one mined lower a link that misses it (the code does
not look again at what it has seen paid). `LinksOpenTheirRows`: the address, the link and
the payment request of a row come from one secret and no other row has it. `LooksAreWanted`:
no look is started by a watch that was disposed of, or for a row already seen paid.
`ImplementsCalls`: `CreateSide` implements `CoreCalls`. `ImplementsWatch`: it implements
`PaymentWatch`, so the theorems about the watch hold on the page. `EveryoneIsAnswered` and
`PaymentIsSeen` are the liveness properties: a submit and a round of looks end whatever
dies, and a payment is seen unless the watch stopped, paused or lost its core.

For the send-on page: `SweptAsShown`: while a sweep runs and after it, the screen speaks of
the destination, plan and amount the core was given, and calls no swap paid out before it
is ("plan" and "wallet" excepted). `DepositsAnswerThePlan`: an address the rail named is paid
only as the deposit of a plan whose deposits are transparent and pay, in the asset, the
recipient or the router, and refund where the deposit screen said; nothing is excepted.
`QuotedIsPaid`: what the core pays a deposit is what the rail was asked to reserve it for.
`PageAndCoreAgree`: "You receive" is what the core pays, and a refusal its refusal (both but
for "plan"). `AskedAsVouched`: nothing is asked of the rail before the boundary was agreed to,
the key's tail typed back and the refund address vetted ("unvouched" excepted).
`GatesPassed`: no sweep skips the gate of its destination: the tick for that transparent
address, the box under those words, and for a deposit the exit's tick, key and refund
address; "plan" is excepted, "wallet" for the words, "unvouched" for the deposit. `BusyEnds`:
the exit's buttons come back. `TrackerTells`: the sent screen comes to tell how the swap
ended. `GatesStopDeposit` is a sentence of the source, and refuted.

For the route: `OneRecipient`: all the money that leaves the link goes to the wallet of
the one transfer. `HandedOverAtTheEnd`: nobody empties the router while the route can
still take from it. `ScreenNotAhead`: no screen is ahead of MultiHopper.
`SaidIsSo`: the gift is in the wallet when a page says so. `EndStaysOnScreen`: the end
is not taken back. `GiftArrives`: the gift reaches the wallet, unless the quote ran
out first.

**Fairness** (`FairSpec`). The code schedules nothing itself: what makes progress
is the user (`Patience`), who presses the one button a screen offers, and the
services (`Service`), which answer, follow the chain and mine. The tab's own
steps are fair because a promise that settles runs its continuation. `Send` is
strongly fair: a user may go back to the choice of a destination again and
again, but not for ever. Faults are not fair. `EnvelopeEmptied` needs a chain
that mines a sweep before it expires; the instance gives sweeps as many heights
as there are (`ExpiryDelta` 3, the code's 40 blocks). In `CreateSide` the browser runs what
is due (the end of an await, a message, a timer, the load), a worker that is alive takes
its messages and answers those it can, and a look is answered with strong fairness by a
gateway that is up to date: gateways may lag, but not at every look for ever. Nothing says
that a worker lives, a load succeeds, a payment is mined or the sender comes back to a
paused tab. In `SendOn` every request to the rail ends (each has a timeout, `oneclick.ts`),
the tracker's timer fires, and of its polls some are answered. In `RouteRun` the fair steps are those of
the run itself, of a recipient who opens the link again and presses the button shown,
of a sent transaction that lands, of the two deposits and of MultiHopper's keeper;
closing a page, faults and expiry are not fair. `TakesGas` says whether MultiHopper
accepts a route of the costs alone: the code leaves that to it, so the passing run
has it refuse and `route_early_look` has it accept. `Expire` waits until no page is
signing and nothing sent is in flight: a quote lives half an hour, an open page signs
in minutes and a transaction dies sooner. Two transactions are enough for a route
stopped before, between and after them, the first of which (`Keeper`) may land twice;
two pages for every race over one transfer, and two wallets for paying the wrong one.

**Findings.** Six sentences of the repository are not true of the program;
`PROJECT.json` quotes them. A final link never finds a refund or a second
payment, because its first block holds a note (`ScanMode::SpendsOnly`). The
failed screen promises that nothing moved after a broadcast that was merely not
answered in time. And a retry after such a broadcast is refused because of the
device's own transaction, which the page reads as another device's. A route whose
quote ran out before it was signed is the link's only transfer for ever: "Try again"
finds it again, and the money stays in the router wallet. A link opened between the
two deposits of a USDC gift may route the SOL and say that it arrived. A quote that lands
after the tick, or the key's tail, was taken back leads to a deposit address all the same. A
seventh, on backing out of the exit, is met by name only and has no run (section 6, "plan").

## 4. Proofs

`BlockScanProofs` (any set of notes, any height, any chunk size and lookback):

* `ScanInvariant`: `TypeOK`, `WalkInv` and the two facts about the answer, together
  inductive. `WalkInv` is needed because the answer is only exact if at every
  chunk boundary the watch list holds exactly the wanted notes of the blocks
  scanned so far and `seen` their spends among those blocks; that a note found
  later is not spent earlier (`FoundLaterIsNotSpentEarlier`) is what makes a
  single pass enough.
* `AnswerIsExact`, `WalkIsExact`, `EarlyRevealIsHonest`, `ScanTypes` follow.
* `ScanImplementsPromise`: every step of the walk maps to a step of
  `EnvelopeAnswer` or a stutter, under the identity on the shared variables.

`SweepRaceProofs` (any sets of tabs, gateways and notes, any number of tries and
faults):

* `RaceTypes`; `RaceInvariant` for `TypeOK /\ CallInv /\ SentStands /\
  FailedIsHonest`. Neither screen property is inductive: what `Answered` shows
  rests on the answer in flight being true, that rests on the request being
  nowhere else, and that on `SendTransaction` going to one gateway only. `CallInv`
  is that chain. Its steps are grouped: a step of one tab (`TabKeeps`), the
  broadcast (`BroadcastKeeps`), and a step of the network (`NetworkFrame`: the wire
  only empties, nodes take only from it, miners only from nodes).
* `SentScreenStands`, `FailedScreenIsHonest`, `AnswersAreTrue` follow.
* `ScreensMatchTheChain`, from a second invariant about the pages (`PageInv`): no tip a page
  holds is above the chain (`TipsBelow`), every spend and payment on the chain is below its
  tip (`OnChain`), and whatever a page knows, asks for or holds, and whatever a transaction
  spends, was paid by then (`PaidFirst`). With it every safety property of `SweepRace` is
  proved.

`SweepWitnessProofs` (any ledger, any notes in any order, any walk cap, any number of faults):

* `WitnessInvariant`: `Sound` and `Faultless`. `Sound` is what holds whatever the gateways
  serve: a witness leads from its own note, the witnesses agree with each other, and with
  the tree as long as it grows. `Faultless` is what holds before the first fault: the tree
  replayed so far, followed by the rest of the block, is the chain's tree after that block,
  and the notes passed are exactly those with a witness (`OnTrack`).
* `PathsLeadToTheAnchor` and `OneRootForAll` follow from `Sound` and the check of `Finish`: it is
  that check, and no trust in the gateways, that makes a wrong path impossible.
  `OnlyRefusedForACause` follows from `Faultless`: no check refuses a replay of the chain.

`OpenSweepProofs` (any chain whose blocks hold its notes, any link and tip, the notes in any
order):

* `SweepsWhatWasFound`: `Both`, which is the walk's invariant, `OnLedger` and
  `SweepsTheUnspent` (the request names what the open found unspent, each note once and where
  it was paid). The middle one is what the witness stage needs of its caller, the first gives it:
  an answer reports a note only in the block that pays it (`RequestsAreReported`).
* `TheOpenIsAnOpen` and `TheSweepIsWitnessed`: every step of the two calls is a step of the
  walk or leaves it alone, and a step of the witness stage or leaves that alone. So neither's
  theorems are proved again: `OpenedAndWitnessed` has them of the two together.
* `TheEnvelopeIsSwept` joins the two ends: what a witnessed sweep spends is what one look at
  the open's range would call unspent (`SweepsItAll`), all of it, each note once.
  `OnlyBlockZeroIsRefused`: of an open's notes, a sweep refuses only one in block 0, which no
  frontier lies below, unless a gateway fails it (`RefusedForBlockZero`).

`PaymentWatchProofs` (any number of rows, envelopes and payments, any chain, any lag):

* The invariant has two layers. `Control` (types, the one driver, whose looks are whose) is
  inductive by itself; `Data` rests on it: a look starts at the birthday or a margin below a
  tip the chain has reached (`WithinMargin`), one that found nothing and has not been heard
  yet may move its start on (`EmptyHanded`), and one that found a payment found the first
  (`FirstFound`). `WatchAssumption` asks for `MaxRollback <= ReorgMargin + 1`: a longer
  reorganisation can move a payment into blocks the watch no longer reads.
* `WatchTypes`, `WatchHasOneDriver`, `WatchNeverSkips`, `FinalLinksCover` follow;
  `WatchLooksAreWanted` is the action property, from the same invariant. `ImplementsWatch`
  carries all of them to the create page.

`SendOnProofs` (any envelope, fee and notes, any assets, number of requests to the rail, of
changes of mind and of calls under way):

* `OneActionEach` (an output of either form rounds to one action) and `FeesAgree` give
  `PageAndCoreAgreeOnAll`: for any envelope, fee, number of notes and extra, page and core
  accept the same sweeps and name the same amount.
* `SendOnInvariant`: two layers. `ExitInv` is about the exit, its requests and the rail's
  answers; `PageInv` rests on it. No property of the page is inductive, because what a late
  answer does depends on what was asked before it. Three facts carry the proof. A deposit
  names the request that reserved it, so no other request still on its way can bring the
  deposit on the screen again. A plan is handed over only while the exit shows its deposit,
  and picking the exit leaves nobody listening to the address box, so every call of the box
  lies before the plan's; the core answers in order, so a plan that lands finds no verdict on
  its way that could replace the destination it sets. And what the review reads (destination,
  plan, wallet's words) does not change until the review is left.
  Parts of `PageInv` hold without exception: the types, `WalletSound` (the core's word on the
  words is about an address it made) and `DepositsSound` (a plan that is set or paid was
  checked, `Checked`, and an address of the rail's is in the address box or paid only as its
  deposit). What is said of which plan, choice and address are on the screen holds until a
  plan lands after its screen was left, and what is said of the recipient until an answer of
  the rail lands on a page whose gates no longer hold: `strays` tells, each theorem states
  its exceptions, and section 6 says what happens then.
* `DepositsAreTheRecipients` follows from `DepositsSound` alone, for every subset of the four
  things the rail may get wrong. `PageTyped`, `ScreensTellTheSweep`, `ReservedAsVouched` and
  `NoGateSkipped` follow, under the exceptions their properties name. `ReviewTellsThePayment` and `QuotesArePaid` follow with
  `PageAndCoreAgreeOnAll`: whatever plan, destination and deposits the review shows, the core
  pays the same amounts or refuses the same sweep.

`CreateSideProofs` (any number of calls under way, rows and envelopes, any chain, any lag):

* `CreateSideInvariant`: the watch's invariant and `CInv`, which is `RpcInv` and `SheetInv`.
  `RpcInv`: a call is in one place at most (in the worker's queue, under way, or answered),
  and whatever lies under the id of a call that is still awaited is that call's, so an id may
  be used again. `SheetInv` rests on it: one call of a row is awaited at a time, and it is the
  next one of the row being made, so the value that is answered is of that row's secret; and
  nothing is paid before the links are out. The watch's part is not proved again: every step
  of the page is a step of `PaymentWatch` or leaves it alone (`CreateStepHolds`), and
  `PaymentWatchProofs` has those steps.
* `CreatePageWatches` (`ImplementsWatch`) is that fact as a theorem about behaviours.
  `CreateCallsAnswered` (`ImplementsCalls`) needs `RpcInv` at each delivery, where the answer
  must suit the call it settles, and at the death of the worker. `CreatedLinksOpen` follows
  from `SheetInv` and, for the birthdays, from the watch's `Data`.

`RouteRunProofs` (any sets of pages and wallets, any number of transactions, attempts,
looks and faults, either asset, whatever MultiHopper estimates or expires):

* `RouteInvariant`: `RouteInv`, inductive. That everyone pays the transfer's wallet rests
  on every page that empties the router knowing a transfer (`Emptying`), that on what
  the page was told being so (`ViewNotAhead`), and that on a transfer never going back
  (`Advances`). `PlanOpen` (a page waits for a transaction only while it has a plan) is
  what the types of a stray transaction need, and `NextTxPending`, that a plan has a
  first transaction, is the well-foundedness of the naturals. The proof takes the
  invariant page by page (`RouteFacts`): the money (`PageStepMoney`, `OutsideMoney`), the
  pages that do not move (`PageFrame`, `PageSameKeeps`) and the one that does
  (`PageOwn`).
* `RouteTypesHold`, `PaidToOneRecipient`, `EmptiedAtTheEnd`, `ScreenIsNotAhead` follow, and
  `EndStays` from it and one case per action that can meet an end on the screen.
* `SaidIsTrue`: `SaidIsSo`, from the hypothesis `~ TakesGas` and a second invariant,
  `GiftInv`: a transfer then carries the gift, a route under way is signed to its last
  transaction (so none that lands later takes a gift that is home), and the steps of a
  refund are counted by where the gift is. Without the hypothesis `route_early_look`
  is a counterexample.

Assumptions: `HeightAssumption`, `ScanAssumption`, `RaceAssumption`, `RouteAssumption`,
`WitnessAssumption`, `NotesAssumption`, `WatchAssumption`, `IdsAssumption`, `FeeAssumption`, `ExitAssumption`, `AsksAssumption`: the
heights, fees and bounds are naturals, a note's block is a height, the preferred gateway is
one of the gateways, an envelope is paid finitely often, a wallet is none of the other places
money can be, and reorganisations stay within the margin. TLC evaluates them in every run. `WitnessSpec` quantifies over
every sequence of notes that are where they say they are; that an open gives such a sequence
is `TheSweepIsWitnessed`.

Every invariant, action property and refinement that a passing run checks is stated by a
theorem. Model-checked only: the seven liveness properties (`EveryTabSettles`,
`EnvelopeEmptied`, `GiftArrives`, `EveryoneIsAnswered`, `PaymentIsSeen`, `BusyEnds`,
`TrackerTells`), because TLAPS does not reason about fairness and ENABLED. `SaidIsSo` is proved
under `~ TakesGas`, which is what its run has.

## 5. Not modelled, and the plan

What is left of the plan, in order:

1. Failover of the reads of one walk (`gateway.rs`): it changes who answers, not what is asked,
   so the walk's properties do not depend on it.
2. The private route's prices and rows (`privateRoute.ts`, `routeTracker.ts`): arithmetic for
   display.
3. The devnet plan of the Solana exit and the warm-up of the proving key.
4. The proxy functions: an allow list and a rate limit per instance, without effect on what
   the page may conclude from an answer.

Not planned: the reading of a typed amount, the CSV and the QR code, the take back page
(a box that leads to the open page).

Out of reach: cryptography (decryption, proofs, key derivation), the wire formats
of lightwalletd, 1Click and MultiHopper, layout and wording, and performance.

## 6. Late answers the code lets in

Met while modelling the send-on page and the exit. The first two contradict a sentence of the
source; with the third they are what `strays` remembers.

* **"unvouched": a page edited while an answer is on its way** (`gates_deposit`). The reducer's
  `quote` event moves to the quote screen whatever has changed since (`solanaFlow.ts:234`), and
  `canGetDeposit` (372-380) asks again for neither the tick, the typed tail nor the refund
  verdict. With the tick taken back, the key made anew or the refund address changed before
  the answer lands, a deposit is reserved and can be swept for a page none of whose gates
  need hold; the file's header (13-16) means to exclude that. `AskedAsVouched` and
  `GatesPassed` say that there is no other way past these gates.
* **"plan": a plan that lands after its deposit screen was left.** `onSwapPlan` awaits
  the core (`SendOn.tsx:334-388`) and nothing cancels it when the recipient goes back a screen,
  or out of the exit. "Backing out of the exit throws the plan away with it (M3)" (835-838) is
  not true then. The project keeps no run that refutes the sentence: the model has these
  steps, the properties that would fail by them except them by name, and `exit_side`'s two
  changes of mind get a screen or two back from the deposit; that nothing else breaks when the
  whole exit was left is in the theorems. Late, the plan sets itself, the destination and the
  review screen of a page that has moved on: with the generated wallet chosen, the review
  comes up before its words were written down, and an extra deposit of the plan is paid
  although the page's amounts do not count it with that destination; a plan that fails its
  check resets the choice; on the sent screen it is tracked in place of the one that was
  paid. Even then a deposit is one that was checked (`DepositsAnswerThePlan`).
* **"wallet": words in place of other words.** `onPickWallet` asks the core for new words unless
  there are some (`SendOn.tsx:882-886`). Clicked again before the first answer (a core that is
  warming up takes its time), it asks twice, and the second words replace the first under
  whatever was ticked. The core answers the two calls one after the other, so the tick has
  to fall between two messages of the worker: a matter of milliseconds, but nothing in the
  code excludes it.
* The ordinary real quote is not put to `quoteAcceptable` again; the private one is.
* A dry quote that was asked for one asset and answers after the other was chosen is shown
  with the decimals of the other.
* A successful quote does not clear the minimum an earlier failure left.
* The route's switch stays on when a re-priced offer is poor: the plan is still shown as a
  route, `checkSwapPlan` refuses its deposit, and only going back helps.
* Picking another box does not count as a newer keystroke (`destId`): a verdict on its way
  fills the cleared box again (`SendOn.tsx:862`).
* "Connect another" keeps the address of the wallet connected before.
