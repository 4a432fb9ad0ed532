------------------------------- MODULE Explorer -------------------------------
(***************************************************************************)
(* The page of the chain explorer: usePolling.js asks a node for its latest *)
(* block at every interval, answered or not, and App.jsx loads the accounts *)
(* and their balances for each height it is shown.  Answers arrive in any   *)
(* order, requests fail, and blocks go on meanwhile.  What an answer sets   *)
(* and the effects that follow from it are one step.                        *)
(***************************************************************************)
EXTENDS Integers, Sequences, FiniteSets

CONSTANTS
    Holders,       \* addresses
    Coins,         \* what each has in the first block
    Times,         \* times of the blocks
    Slots,         \* requests for the latest block that may be under way
    MaxLoads,      \* bound: loads of the accounts under way, cancelled or not
    MaxFailures,   \* bound: requests that fail
    MaxRemounts    \* bound: times the effects are run anew

ASSUME ExplorerAssumption ==
    /\ Coins \in [Holders -> Nat] /\ \E a \in Holders : Coins[a] > 0
    /\ Times \in Seq(Nat) /\ Times # << >>
    /\ \A i, j \in DOMAIN Times : i < j => Times[i] < Times[j]
    /\ {MaxLoads, MaxFailures, MaxRemounts} \subseteq Nat /\ MaxLoads > 1

VARIABLES
    ledger,          \* the chain: the balances at each height
    polls,           \* usePolling: requests under way
    height,          \* App: height of block.data, 0 while there is none
    error,           \* usePolling: the last answer was an error
    lastBlock,       \* App: height of the last block seen, 0 while there is none
    blockTime,       \* App: block interval, <<time, blocks>>
    loads,           \* App: loads of the accounts under way
    accounts,        \* App: the height each balance shown was read at
    accountsFor,     \* history: height for which the accounts shown were loaded
    accountError, accountLoading,
    failures, remounts

vars == <<ledger, polls, height, error, lastBlock, blockTime, loads, accounts,
          accountsFor, accountError, accountLoading, failures, remounts>>

pollVars    == <<polls, height, error, lastBlock, blockTime>>
accountVars == <<loads, accounts, accountsFor, accountError, accountLoading>>

-----------------------------------------------------------------------------
(* The chain, external *)

Top == Len(ledger)

\* An address has an account from the first coins it is sent.
AccountsAt(h) == {a \in Holders : \E i \in 1 .. h : ledger[i][a] > 0}

\* A block moves one coin, or none.
Produce ==
    /\ Top < Len(Times)
    /\ \/ ledger' = Append(ledger, ledger[Top])
       \/ \E a, b \in Holders :
             /\ a # b /\ ledger[Top][a] > 0
             /\ ledger' = Append(ledger, [ledger[Top] EXCEPT ![a] = @ - 1, ![b] = @ + 1])
    /\ UNCHANGED <<pollVars, accountVars, failures, remounts>>

Fails == failures < MaxFailures /\ failures' = failures + 1

-----------------------------------------------------------------------------
(* The latest block *)

\* What has become of a request; otherwise the height it was answered with.
Asked   == 0
Failure == -1
NoPoll  == -2

\* Slots only tell requests apart: one that is free is as good as another.
Free == {s \in Slots : polls[s] = NoPoll}
Ask  == Free # {} /\ polls' = [polls EXCEPT ![CHOOSE s \in Free : TRUE] = Asked]

\* run, from the timer.
Tick ==
    /\ Ask
    /\ UNCHANGED <<ledger, height, error, lastBlock, blockTime, accountVars, failures,
                   remounts>>

\* The node reads its latest block; an error may also come from the network.
Serve(s) ==
    /\ polls[s] = Asked
    /\ \/ polls' = [polls EXCEPT ![s] = Top] /\ UNCHANGED failures
       \/ polls' = [polls EXCEPT ![s] = Failure] /\ Fails
    /\ UNCHANGED <<ledger, height, error, lastBlock, blockTime, accountVars, remounts>>

\* Mutant: the time is not divided by the number of blocks.
IntervalPerPoll(h) ==
    IF lastBlock # 0 /\ h > lastBlock THEN <<Times[h] - Times[lastBlock], 1>>
    ELSE blockTime

\* The interval between the blocks of two answers.  It stays when the height did not
\* rise.
Interval(h) ==
    IF lastBlock # 0 /\ h > lastBlock
    THEN <<Times[h] - Times[lastBlock], h - lastBlock>> ELSE blockTime

\* A load, as it starts; of a cancelled one, whose answers are dropped, only that
\* it goes on.
Started(h) == [height |-> h, alive |-> TRUE, listed |-> {}, rows |-> << >>]
Cancelled  == [height |-> 0, alive |-> FALSE, listed |-> {}, rows |-> << >>]

\* Mutant: a new height does not cancel the load of the old one.
ReloadBeside(h) == loads \cup (IF h = 0 THEN {} ELSE {Started(h)})

\* Mutant: while a load is under way no other one is started.
ReloadUnlessLoading(h) ==
    IF h = 0 \/ \E l \in loads : l.alive THEN loads ELSE loads \cup {Started(h)}

\* Mutant: accounts are loaded without waiting for a block.
ReloadWithoutBlock(h) == {Cancelled : l \in loads} \cup {Started(h)}

\* The effect of a height: it cancels the load of the height before and starts one.
Reload(h) == {Cancelled : l \in loads} \cup (IF h = 0 THEN {} ELSE {Started(h)})

\* An error leaves the data of the last answer.
Data(answer) == IF answer = Failure THEN height ELSE answer

\* An answer is taken whatever else has been asked or answered since.
Receive(s) ==
    LET answer == polls[s] IN
    /\ answer \notin {NoPoll, Asked}
    /\ polls' = [polls EXCEPT ![s] = NoPoll]
    /\ error' = (answer = Failure)
    /\ height' = Data(answer)
    /\ IF answer = Failure
       THEN UNCHANGED <<lastBlock, blockTime>>
       ELSE lastBlock' = answer /\ blockTime' = Interval(answer)
    /\ IF height' = height THEN UNCHANGED loads
       ELSE Cardinality(loads) < MaxLoads /\ loads' = Reload(height')
    /\ UNCHANGED <<ledger, accounts, accountsFor, accountError, accountLoading, failures,
                   remounts>>

-----------------------------------------------------------------------------
(* The accounts *)

\* api.accounts
List(l) ==
    /\ l.alive /\ l.listed = {}
    /\ loads' = (loads \ {l}) \cup {[l EXCEPT !.listed = AccountsAt(Top)]}
    /\ UNCHANGED <<ledger, pollVars, accounts, accountsFor, accountError, accountLoading,
                   failures, remounts>>

\* api.balances, one request for each account.
Read(l) ==
    /\ \E a \in l.listed \ DOMAIN l.rows :
          loads' = (loads \ {l}) \cup
              {[l EXCEPT !.rows = [b \in DOMAIN l.rows \cup {a} |->
                                       IF b = a THEN Top ELSE l.rows[b]]]}
    /\ UNCHANGED <<ledger, pollVars, accounts, accountsFor, accountError, accountLoading,
                   failures, remounts>>

\* Mutant: a cancelled load also ends the loading.
LoadingAfterAnyLoad(l) == FALSE

\* finally: only the load of the height shown ends the loading.
LoadingAfter(l) == accountLoading /\ ~l.alive

Finish(l) ==
    /\ IF l.alive
       THEN /\ l.listed # {} /\ DOMAIN l.rows = l.listed
            /\ accounts' = l.rows /\ accountsFor' = l.height /\ accountError' = FALSE
       ELSE UNCHANGED <<accounts, accountsFor, accountError>>
    /\ loads' = loads \ {l}
    /\ accountLoading' = LoadingAfter(l)
    /\ UNCHANGED <<ledger, pollVars, failures, remounts>>

\* One request that fails fails the load; what is shown stays.
FailLoad(l) ==
    /\ l.alive /\ Fails
    /\ loads' = loads \ {l} /\ accountError' = TRUE
    /\ accountLoading' = LoadingAfter(l)
    /\ UNCHANGED <<ledger, pollVars, accounts, accountsFor, remounts>>

-----------------------------------------------------------------------------

\* All effects are undone and run anew with the state kept, as StrictMode and a
\* hot reload do.  Polls under way are those of the component still: their flag
\* says it is mounted, as it is again.
Remount ==
    /\ remounts < MaxRemounts /\ remounts' = remounts + 1
    /\ Ask
    /\ Cardinality(loads) < MaxLoads /\ loads' = Reload(height)
    /\ UNCHANGED <<ledger, height, error, lastBlock, blockTime, accounts, accountsFor,
                   accountError, accountLoading, failures>>

Init ==
    /\ ledger = <<Coins>>
    /\ polls = [s \in Slots |-> IF s = CHOOSE t \in Slots : TRUE
                               THEN Asked ELSE NoPoll]
    /\ height = 0 /\ error = FALSE /\ lastBlock = 0 /\ blockTime = <<0, 1>>
    /\ loads = {} /\ accounts = << >> /\ accountsFor = 0
    /\ accountError = FALSE /\ accountLoading = TRUE
    /\ failures = 0 /\ remounts = 0

Load == \E l \in loads : List(l) \/ Read(l) \/ Finish(l)

Next ==
    \/ Produce \/ Tick \/ Remount
    \/ \E s \in Slots : Serve(s) \/ Receive(s)
    \/ Load
    \/ \E l \in loads : FailLoad(l)

\* The timer goes on, every request is answered or fails, and every load goes on.
Fairness ==
    /\ WF_vars(Tick) /\ WF_vars(Load)
    /\ \A s \in Slots : WF_vars(Serve(s)) /\ WF_vars(Receive(s))

Spec     == Init /\ [][Next]_vars
FairSpec == Spec /\ Fairness

-----------------------------------------------------------------------------
(* Properties *)

Heights == 1 .. Len(Times)

\* Types; accounts are loaded for the height of a block only.
ExplorerTypeOK ==
    /\ ledger \in Seq([Holders -> Nat]) /\ Top \in Heights
    /\ polls \in [Slots -> Heights \cup {Asked, Failure, NoPoll}]
    /\ height \in Heights \cup {0} /\ lastBlock = height
    /\ blockTime \in Nat \X Heights
    /\ \A l \in loads :
          /\ l.height \in (IF l.alive THEN Heights ELSE {0}) /\ l.listed \subseteq Holders
          /\ DOMAIN l.rows \subseteq l.listed
          /\ \A a \in DOMAIN l.rows : l.rows[a] \in Heights
    /\ DOMAIN accounts \subseteq Holders
    /\ {error, accountError, accountLoading} \subseteq BOOLEAN

\* The page at rest, with no load of its own under way and no error, shows
\* balances at least as recent as the block it shows, however heights and loads
\* overtook each other ("转账后余额才会变", App.jsx:50).
BalancesAreOfTheBlock ==
    height # 0 /\ ~accountError /\ (\A l \in loads : ~l.alive) =>
        /\ accountsFor = height
        /\ \A a \in DOMAIN accounts : accounts[a] >= height

\* A balance on the page is never replaced by an older one, although the height
\* on it may fall back.
BalancesNeverGoBack ==
    [][\A a \in DOMAIN accounts :
           a \in DOMAIN accounts' /\ accounts'[a] >= accounts[a]]_accounts

\* The page never says that there are no accounts (AccountList.jsx:82), which
\* there always are: neither before the first load is over, nor when it was
\* cancelled or failed.
NeverWithoutAccounts == accountLoading \/ accountError \/ accounts # << >>

\* The block interval shown is the mean over blocks of the chain, also when
\* heights repeat, are skipped or fall back between two answers.
IntervalIsAMean ==
    blockTime # <<0, 1>> =>
        \E i \in 1 .. Top, j \in 1 .. Top :
            /\ i < j
            /\ blockTime[1] * (j - i) = blockTime[2] * (Times[j] - Times[i])

Current ==
    /\ DOMAIN accounts = AccountsAt(Top)
    /\ \A a \in DOMAIN accounts : ledger[accounts[a]][a] = ledger[Top][a]

\* When the chain rests and requests no longer fail, the page shows its last block
\* and, from then on, the balances of that block or an error: a load that failed
\* is only repeated at the next height.
PageCatchesUp ==
    <>[](height = Top /\ ~error /\ (accountError \/ Current))
=============================================================================
