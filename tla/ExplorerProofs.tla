---------------------------- MODULE ExplorerProofs ----------------------------
(***************************************************************************)
(* What the page of the explorer shows, for every set of holders, every     *)
(* chain, and any number of requests and loads under way.                   *)
(***************************************************************************)
EXTENDS Explorer, TLAPS

-----------------------------------------------------------------------------
(* The inductive invariant.                                                 *)

\* Balances: the height at which each of some holders was read.
Balances == UNION {[S -> Heights] : S \in SUBSET Holders}

LoadType == [height : Heights \cup {0}, alive : BOOLEAN, listed : SUBSET Holders,
             rows : Balances]

LedgerInv ==
    /\ ledger \in Seq([Holders -> Nat]) /\ Top \in Heights
    /\ ledger[1] = Coins

\* No answer is of a block the chain does not have yet.
PollInv ==
    /\ polls \in [Slots -> Heights \cup {Asked, Failure, NoPoll}]
    /\ \A s \in Slots : polls[s] <= Top
    /\ height \in Heights \cup {0} /\ height <= Top /\ lastBlock = height
    /\ error \in BOOLEAN /\ blockTime \in Nat \X Heights
    /\ IntervalIsAMean

\* One load at most is not cancelled, and it is the one of the height shown.  It has
\* read what it lists, at that height or later.
LoadInv ==
    /\ loads \subseteq LoadType
    /\ \A l, m \in loads : l.alive /\ m.alive => l = m
    /\ \A l \in loads :
          /\ l.height = (IF l.alive THEN height ELSE 0)
          /\ IF l.alive THEN height # 0 ELSE l.listed = {}
          /\ DOMAIN l.rows \subseteq l.listed /\ l.listed \subseteq AccountsAt(Top)
          /\ \A a \in DOMAIN l.rows : l.height <= l.rows[a] /\ l.rows[a] <= Top

\* What a load under way has listed and read is no older than what is shown.
Supersedes(l) ==
    /\ l.listed # {} => DOMAIN accounts \subseteq l.listed
    /\ \A a \in DOMAIN accounts \cap DOMAIN l.rows : accounts[a] <= l.rows[a]

ShownInv ==
    /\ accounts \in Balances
    /\ \A a \in DOMAIN accounts : a \in AccountsAt(Top) /\ accounts[a] <= Top
    /\ \A l \in loads : l.alive => Supersedes(l)
    /\ accountError \in BOOLEAN /\ accountLoading \in BOOLEAN
    /\ BalancesAreOfTheBlock /\ NeverWithoutAccounts

ExplorerInv == LedgerInv /\ PollInv /\ LoadInv /\ ShownInv

-----------------------------------------------------------------------------
(* The chain only grows.                                                    *)

\* A block is appended, and no account disappears with it.
LEMMA ProduceAppends ==
    ASSUME ExplorerInv, Produce
    PROVE  /\ LedgerInv' /\ Top' = Top + 1
           /\ AccountsAt(Top) \subseteq AccountsAt(Top)'
<1> USE DEF ExplorerInv, LedgerInv, Top, Heights
<1>1. PICK b \in [Holders -> Nat] : ledger' = Append(ledger, b)
    <2>1. CASE ledger' = Append(ledger, ledger[Top])
        BY <2>1
    <2>2. ASSUME NEW a \in Holders, NEW b \in Holders, a # b, ledger[Top][a] > 0,
                 ledger' = Append(ledger,
                              [ledger[Top] EXCEPT ![a] = @ - 1, ![b] = @ + 1])
          PROVE  \E r \in [Holders -> Nat] : ledger' = Append(ledger, r)
        <3>1. ledger[Top] \in [Holders -> Nat]
            OBVIOUS
        <3>2. [ledger[Top] EXCEPT ![a] = @ - 1, ![b] = @ + 1] \in [Holders -> Nat]
            BY <2>2, <3>1
        <3> QED
            BY <2>2, <3>2
    <2> QED
        BY <2>1, <2>2 DEF Produce
<1>2. Times \in Seq(Nat) /\ Len(Times) \in Nat
    BY ExplorerAssumption
<1>3. Top < Len(Times)
    BY DEF Produce
<1>4. /\ ledger' \in Seq([Holders -> Nat]) /\ Len(ledger') = Len(ledger) + 1
      /\ \A i \in 1 .. Len(ledger) : ledger'[i] = ledger[i]
    BY <1>1
<1>5. Len(ledger) \in 1 .. Len(Times)
    OBVIOUS
<1>6. AccountsAt(Top) \subseteq AccountsAt(Top)'
    BY <1>4, <1>5 DEF AccountsAt
<1> QED
    BY <1>2, <1>3, <1>4, <1>5, <1>6

\* There always are accounts, so that an empty listing is one not answered yet.
LEMMA AccountsExist ==
    ASSUME LedgerInv
    PROVE  AccountsAt(Top) # {}
<1>1. PICK a \in Holders : Coins[a] > 0
    BY ExplorerAssumption
<1>2. 1 \in 1 .. Top /\ ledger[1][a] > 0
    BY <1>1 DEF LedgerInv, Heights
<1> QED
    BY <1>1, <1>2 DEF AccountsAt

LEMMA InitKeepsExplorer ==
    ASSUME Init
    PROVE  ExplorerInv
<1>1. Len(Times) \in Nat \ {0}
    BY ExplorerAssumption
<1>2. LedgerInv
    BY <1>1, ExplorerAssumption DEF Init, LedgerInv, Top, Heights
<1>3. PollInv
    <2>1. Top = 1 /\ 1 \in Heights
        BY <1>1 DEF Init, Top, Heights
    <2>2. polls \in [Slots -> {Asked, NoPoll}]
        BY DEF Init
    <2>3. \A s \in Slots : polls[s] <= Top
        BY <2>1, <2>2 DEF Asked, NoPoll
    <2>4. blockTime \in Nat \X Heights /\ IntervalIsAMean
        BY <2>1 DEF Init, IntervalIsAMean
    <2>5. height = 0 /\ lastBlock = 0 /\ error = FALSE
        BY DEF Init
    <2>6. height <= Top
        BY <2>1, <2>5
    <2>7. polls \in [Slots -> Heights \cup {Asked, Failure, NoPoll}]
        BY <2>2
    <2> QED
        BY <2>3, <2>4, <2>5, <2>6, <2>7 DEF PollInv
<1>4. LoadInv
    BY DEF Init, LoadInv
<1>5. ShownInv
    <2>1. accounts \in [{} -> Heights]
        BY DEF Init
    <2> QED
        BY <2>1 DEF Init, ShownInv, Balances, BalancesAreOfTheBlock, NeverWithoutAccounts
<1> QED
    BY <1>2, <1>3, <1>4, <1>5 DEF ExplorerInv

-----------------------------------------------------------------------------
(* The steps of the chain and of the timer.                                 *)

LEMMA ProduceKeepsExplorer ==
    ASSUME ExplorerInv, Produce
    PROVE  ExplorerInv'
<1>1. LedgerInv' /\ Top' = Top + 1 /\ AccountsAt(Top) \subseteq AccountsAt(Top)'
    BY ProduceAppends
<1>2. Top \in Heights /\ Top' \in Heights
    BY <1>1 DEF ExplorerInv, LedgerInv
<1>3. UNCHANGED <<pollVars, accountVars>>
    BY DEF Produce
<1>4. PollInv'
    <2>1. polls' = polls /\ height' = height /\ lastBlock' = lastBlock /\ error' = error
          /\ blockTime' = blockTime
        BY <1>3 DEF pollVars
    <2>2. 1 .. Top \subseteq 1 .. Top'
        BY <1>1, <1>2 DEF Heights
    <2>3. IntervalIsAMean'
        BY <2>1, <2>2 DEF ExplorerInv, PollInv, IntervalIsAMean
    <2>4. \A s \in Slots : polls[s] \in Int
        BY DEF ExplorerInv, PollInv, Heights, Asked, Failure, NoPoll
    <2> QED
        BY <1>1, <1>2, <2>1, <2>3, <2>4 DEF ExplorerInv, PollInv, Heights
<1>5. LoadInv'
    <2>1. \A l \in loads : \A a \in DOMAIN l.rows : l.rows[a] \in Heights
        BY DEF ExplorerInv, LoadInv, LoadType, Balances
    <2>2. \A l \in loads : l.listed \subseteq AccountsAt(Top)'
        BY <1>1 DEF ExplorerInv, LoadInv
    <2>3. \A l \in loads : \A a \in DOMAIN l.rows : l.rows[a] <= Top'
        BY <1>1, <1>2, <2>1 DEF ExplorerInv, LoadInv, Heights
    <2> QED
        BY <1>3, <2>2, <2>3
        DEF ExplorerInv, LoadInv, LoadType, Balances, pollVars, accountVars
<1>6. ShownInv'
    <2>1. \A a \in DOMAIN accounts : accounts[a] \in Heights
        BY DEF ExplorerInv, ShownInv, Balances
    <2>2. \A a \in DOMAIN accounts : a \in AccountsAt(Top)' /\ accounts[a] <= Top'
        BY <1>1, <1>2, <2>1 DEF ExplorerInv, ShownInv, Heights
    <2> QED
        BY <1>3, <2>2
        DEF ExplorerInv, ShownInv, Supersedes, Balances, BalancesAreOfTheBlock,
            NeverWithoutAccounts, pollVars, accountVars
<1> QED
    BY <1>1, <1>4, <1>5, <1>6 DEF ExplorerInv

\* Requests for the latest block leave everything else alone.
LEMMA PollsKeepExplorer ==
    ASSUME ExplorerInv,
           UNCHANGED <<ledger, height, error, lastBlock, blockTime, accountVars>>,
           polls' \in [Slots -> Heights \cup {Asked, Failure, NoPoll}],
           \A s \in Slots : polls'[s] <= Top
    PROVE  ExplorerInv'
<1>1. Top' = Top
    BY DEF Top
<1>2. LedgerInv'
    BY DEF ExplorerInv, LedgerInv, Top
<1>3. PollInv'
    BY <1>1 DEF ExplorerInv, PollInv, IntervalIsAMean
<1>4. LoadInv'
    BY <1>1 DEF ExplorerInv, LoadInv, LoadType, Balances, AccountsAt, accountVars
<1>5. ShownInv'
    BY <1>1
    DEF ExplorerInv, ShownInv, Supersedes, Balances, AccountsAt, BalancesAreOfTheBlock,
        NeverWithoutAccounts, accountVars
<1> QED
    BY <1>2, <1>3, <1>4, <1>5 DEF ExplorerInv

\* A request that is made is answered by no block yet.
LEMMA AskKeepsPolls ==
    ASSUME ExplorerInv, Ask
    PROVE  /\ polls' \in [Slots -> Heights \cup {Asked, Failure, NoPoll}]
           /\ \A s \in Slots : polls'[s] <= Top
<1>1. Top \in Nat
    BY DEF ExplorerInv, LedgerInv, Heights
<1>2. PICK r : polls' = [polls EXCEPT ![r] = Asked]
    BY DEF Ask
<1>3. /\ polls \in [Slots -> Heights \cup {Asked, Failure, NoPoll}]
      /\ \A s \in Slots : polls[s] <= Top
    BY DEF ExplorerInv, PollInv
<1>4. \A s \in Slots : polls'[s] \in {polls[s], Asked}
    BY <1>2, <1>3
<1>5. polls' \in [Slots -> Heights \cup {Asked, Failure, NoPoll}]
    BY <1>2, <1>3
<1>6. Asked <= Top
    BY <1>1 DEF Asked
<1> QED
    BY <1>3, <1>4, <1>5, <1>6

LEMMA TickKeepsExplorer ==
    ASSUME ExplorerInv, Tick
    PROVE  ExplorerInv'
BY AskKeepsPolls, PollsKeepExplorer DEF Tick

LEMMA ServeKeepsExplorer ==
    ASSUME ExplorerInv, NEW s \in Slots, Serve(s)
    PROVE  ExplorerInv'
<1>1. Top \in Heights /\ Top \in Nat
    BY DEF ExplorerInv, LedgerInv, Heights
<1>2. /\ polls' \in [Slots -> Heights \cup {Asked, Failure, NoPoll}]
      /\ \A r \in Slots : polls'[r] <= Top
    BY <1>1 DEF ExplorerInv, PollInv, Serve, Asked, Failure, NoPoll
<1>3. UNCHANGED <<ledger, height, error, lastBlock, blockTime, accountVars>>
    BY DEF Serve
<1> QED
    BY <1>2, <1>3, PollsKeepExplorer

-----------------------------------------------------------------------------
(* The steps that show another height.                                      *)

LEMMA NothingRead == << >> \in Balances /\ DOMAIN << >> = {}
<1>1. << >> \in [{} -> Heights]
    OBVIOUS
<1> QED
    BY <1>1 DEF Balances

\* The loads that the effect of a height leaves under way.
LEMMA ReloadedLoads ==
    ASSUME NEW h \in Heights \cup {0}
    PROVE  /\ Reload(h) \subseteq LoadType
           /\ \A l \in Reload(h) : l = Cancelled \/ (h # 0 /\ l = Started(h))
           /\ h # 0 => Started(h) \in Reload(h)
<1>1. Cancelled \in LoadType /\ Started(h) \in LoadType
    BY NothingRead DEF Cancelled, Started, LoadType
<1> QED
    BY <1>1 DEF Reload

LEMMA ReloadKeepsAccounts ==
    ASSUME ExplorerInv, height' \in Heights \cup {0}, loads' = Reload(height'),
           UNCHANGED <<ledger, accounts, accountsFor, accountError, accountLoading>>
    PROVE  LoadInv' /\ ShownInv'
<1>1. Top' = Top /\ AccountsAt(Top)' = AccountsAt(Top)
    BY DEF Top, AccountsAt
<1>2. /\ loads' \subseteq LoadType
      /\ \A l \in loads' : l = Cancelled \/ (height' # 0 /\ l = Started(height'))
      /\ height' # 0 => Started(height') \in loads'
    BY ReloadedLoads
<1>3. /\ Cancelled.height = 0 /\ Cancelled.alive = FALSE /\ Cancelled.listed = {}
      /\ DOMAIN Cancelled.rows = {}
    BY NothingRead DEF Cancelled
<1>4. /\ Started(height').height = height' /\ Started(height').alive = TRUE
      /\ Started(height').listed = {} /\ DOMAIN Started(height').rows = {}
    BY NothingRead DEF Started
<1>5. /\ ~Cancelled.alive /\ Started(height').alive
    BY <1>3, <1>4
<1>6. LoadInv'
    <2>1. \A l, m \in loads' : l.alive /\ m.alive => l = m
        BY <1>2, <1>5
    <2>2. \A l \in loads' :
             /\ l.height = (IF l.alive THEN height' ELSE 0)
             /\ l.alive => height' # 0
             /\ ~l.alive => l.listed = {}
             /\ l.listed = {} /\ DOMAIN l.rows = {}
        BY <1>2, <1>3, <1>4, <1>5
    <2> QED
        BY <1>1, <1>2, <2>1, <2>2 DEF LoadInv
<1>7. ShownInv'
    <2>1. \A l \in loads' : l.listed = {} /\ DOMAIN l.rows = {}
        BY <1>2, <1>3, <1>4
    <2>2. BalancesAreOfTheBlock'
        BY <1>2, <1>5 DEF BalancesAreOfTheBlock
    <2> QED
        BY <1>1, <2>1, <2>2
        DEF ExplorerInv, ShownInv, Supersedes, Balances, NeverWithoutAccounts
<1> QED
    BY <1>6, <1>7

\* Times are those of a chain: later blocks have later ones.
LEMMA IntervalsAreMeans ==
    ASSUME ExplorerInv, NEW h \in Heights, h <= Top
    PROVE  /\ Interval(h) \in Nat \X Heights
           /\ Interval(h) # <<0, 1>> =>
                 \E i \in 1 .. Top, j \in 1 .. Top :
                     /\ i < j
                     /\ Interval(h)[1] * (j - i) = Interval(h)[2] * (Times[j] - Times[i])
<1>1. CASE lastBlock # 0 /\ h > lastBlock
    <2>1. lastBlock \in 1 .. Top /\ h \in 1 .. Top /\ lastBlock < h
        BY <1>1 DEF ExplorerInv, LedgerInv, PollInv, Heights
    <2>2. Times[lastBlock] \in Nat /\ Times[h] \in Nat /\ Times[lastBlock] < Times[h]
        <3>1. lastBlock \in DOMAIN Times /\ h \in DOMAIN Times
            BY <2>1, ExplorerAssumption DEF ExplorerInv, LedgerInv, Heights
        <3>2. \A i \in DOMAIN Times : Times[i] \in Nat
            BY ExplorerAssumption
        <3> QED
            BY <2>1, <3>1, <3>2, ExplorerAssumption
    <2>3. Interval(h) = <<Times[h] - Times[lastBlock], h - lastBlock>>
        BY <1>1 DEF Interval
    <2>4. Interval(h)[1] = Times[h] - Times[lastBlock] /\ Interval(h)[2] = h - lastBlock
        BY <2>3
    <2>5. Times[h] - Times[lastBlock] \in Nat /\ h - lastBlock \in Heights
        BY <2>1, <2>2 DEF ExplorerInv, LedgerInv, Heights
    <2>6. Interval(h)[1] * (h - lastBlock) = Interval(h)[2] * (Times[h] - Times[lastBlock])
        <3> DEFINE t == Times[h] - Times[lastBlock]
                   b == h - lastBlock
        <3>1. t \in Int /\ b \in Int /\ Interval(h)[1] = t /\ Interval(h)[2] = b
            BY <2>1, <2>2, <2>4
        <3> HIDE DEF t, b
        <3>2. t * b = b * t
            BY <3>1
        <3> QED
            BY <3>1, <3>2 DEF t, b
    <2> QED
        BY <2>1, <2>3, <2>5, <2>6
<1>2. CASE ~(lastBlock # 0 /\ h > lastBlock)
    BY <1>2 DEF Interval, ExplorerInv, PollInv, IntervalIsAMean
<1> QED
    BY <1>1, <1>2

LEMMA ReceiveKeepsExplorer ==
    ASSUME ExplorerInv, NEW s \in Slots, Receive(s)
    PROVE  ExplorerInv'
<1>1. Top' = Top /\ AccountsAt(Top)' = AccountsAt(Top) /\ Top \in Heights /\ Top \in Nat
    BY DEF Receive, Top, AccountsAt, ExplorerInv, LedgerInv, Heights
<1>2. LedgerInv'
    BY <1>1 DEF Receive, ExplorerInv, LedgerInv
<1>3. polls[s] \in Heights \cup {Failure} /\ polls[s] <= Top
    BY DEF Receive, ExplorerInv, PollInv
<1>4. polls' \in [Slots -> Heights \cup {Asked, Failure, NoPoll}]
      /\ \A r \in Slots : polls'[r] <= Top
    <2>1. polls' = [polls EXCEPT ![s] = NoPoll]
        BY DEF Receive
    <2>2. NoPoll <= Top
        BY <1>1 DEF NoPoll
    <2> QED
        BY <2>1, <2>2 DEF ExplorerInv, PollInv
<1>5. CASE polls[s] = Failure
    <2>1. UNCHANGED <<height, lastBlock, blockTime, loads>> /\ error' = TRUE
        BY <1>5 DEF Receive, Data
    <2>2. PollInv'
        BY <1>1, <1>4, <2>1 DEF ExplorerInv, PollInv, IntervalIsAMean
    <2>3. LoadInv' /\ ShownInv'
        BY <1>1, <2>1
        DEF Receive, ExplorerInv, LoadInv, LoadType, Balances, ShownInv, Supersedes,
            BalancesAreOfTheBlock, NeverWithoutAccounts
    <2> QED
        BY <1>2, <2>2, <2>3 DEF ExplorerInv
<1>6. CASE polls[s] # Failure
    <2>1. height' = polls[s] /\ lastBlock' = polls[s] /\ error' = FALSE
        BY <1>6 DEF Receive, Data
    <2>2. polls[s] \in Heights /\ blockTime' = Interval(polls[s])
        BY <1>3, <1>6 DEF Receive
    <2>3. blockTime' \in Nat \X Heights /\ IntervalIsAMean'
        BY <1>1, <1>3, <2>2, IntervalsAreMeans DEF IntervalIsAMean
    <2>4. PollInv'
        BY <1>1, <1>3, <1>4, <2>1, <2>2, <2>3 DEF PollInv
    <2>5. LoadInv' /\ ShownInv'
        <3>1. UNCHANGED <<ledger, accounts, accountsFor, accountError, accountLoading>>
            BY DEF Receive
        <3>2. CASE height' = height
            <4>1. loads' = loads
                BY <3>2 DEF Receive
            <4> QED
                BY <1>1, <3>1, <3>2, <4>1
                DEF ExplorerInv, LoadInv, LoadType, Balances, ShownInv, Supersedes,
                    BalancesAreOfTheBlock, NeverWithoutAccounts
        <3>3. CASE height' # height
            <4>1. loads' = Reload(height')
                BY <3>3 DEF Receive
            <4> QED
                BY <2>1, <2>2, <3>1, <4>1, ReloadKeepsAccounts
        <3> QED
            BY <3>2, <3>3
    <2> QED
        BY <1>2, <2>4, <2>5 DEF ExplorerInv
<1> QED
    BY <1>5, <1>6

LEMMA RemountKeepsExplorer ==
    ASSUME ExplorerInv, Remount
    PROVE  ExplorerInv'
<1>1. Top' = Top
    BY DEF Remount, Top
<1>2. LedgerInv'
    BY <1>1 DEF Remount, ExplorerInv, LedgerInv
<1>3. /\ polls' \in [Slots -> Heights \cup {Asked, Failure, NoPoll}]
      /\ \A s \in Slots : polls'[s] <= Top
    BY AskKeepsPolls DEF Remount
<1>4. PollInv'
    BY <1>1, <1>3 DEF Remount, ExplorerInv, PollInv, IntervalIsAMean
<1>5. LoadInv' /\ ShownInv'
    <2>1. /\ height' = height /\ height \in Heights \cup {0} /\ loads' = Reload(height')
          /\ UNCHANGED <<ledger, accounts, accountsFor, accountError, accountLoading>>
        BY DEF Remount, ExplorerInv, PollInv
    <2> QED
        BY <2>1, ReloadKeepsAccounts
<1> QED
    BY <1>2, <1>4, <1>5 DEF ExplorerInv

-----------------------------------------------------------------------------
(* The steps of a load.                                                     *)

LEMMA LoadsLeaveTheRest ==
    ASSUME ExplorerInv, UNCHANGED <<ledger, pollVars>>
    PROVE  /\ LedgerInv' /\ PollInv'
           /\ Top' = Top /\ AccountsAt(Top)' = AccountsAt(Top)
           /\ height' = height /\ Top \in Heights
BY DEF ExplorerInv, LedgerInv, PollInv, IntervalIsAMean, Top, AccountsAt, pollVars

\* A load that goes on with what it has listed and read so far.
LEMMA LoadGoesOn ==
    ASSUME ExplorerInv, NEW l \in loads, l.alive, NEW m \in LoadType, m.alive,
           loads' = (loads \ {l}) \cup {m}, m.height = l.height,
           DOMAIN m.rows \subseteq m.listed, m.listed \subseteq AccountsAt(Top),
           \A a \in DOMAIN m.rows : l.height <= m.rows[a] /\ m.rows[a] <= Top,
           Supersedes(m),
           UNCHANGED <<ledger, pollVars, accounts, accountsFor, accountError,
                       accountLoading>>
    PROVE  ExplorerInv'
<1>1. /\ LedgerInv' /\ PollInv' /\ height' = height
      /\ Top' = Top /\ AccountsAt(Top)' = AccountsAt(Top)
    BY LoadsLeaveTheRest
<1>2. loads \subseteq LoadType /\ \A k \in loads : k.alive => k = l
    BY DEF ExplorerInv, LoadInv
<1>3. LoadInv'
    <2>1. \A j, k \in loads' : j.alive /\ k.alive => j = k
        BY <1>2
    <2>2. m.height = height /\ height # 0
        BY DEF ExplorerInv, LoadInv
    <2> QED
        BY <1>1, <1>2, <2>1, <2>2 DEF ExplorerInv, LoadInv
<1>4. ShownInv'
    <2>1. \A k \in loads' : k.alive => k = m
        BY <1>2
    <2>2. Supersedes(m)'
        BY DEF Supersedes
    <2>3. BalancesAreOfTheBlock' /\ NeverWithoutAccounts'
        BY <1>1 DEF BalancesAreOfTheBlock, NeverWithoutAccounts, ExplorerInv, ShownInv
    <2> QED
        BY <1>1, <2>1, <2>2, <2>3 DEF ExplorerInv, ShownInv
<1> QED
    BY <1>1, <1>3, <1>4 DEF ExplorerInv

LEMMA ListKeepsExplorer ==
    ASSUME ExplorerInv, NEW l \in loads, List(l)
    PROVE  ExplorerInv'
<1> DEFINE m == [l EXCEPT !.listed = AccountsAt(Top)]
<1>1. l \in LoadType /\ l.alive /\ l.listed = {} /\ DOMAIN l.rows = {}
    BY DEF List, ExplorerInv, LoadInv
<1>2. AccountsAt(Top) \subseteq Holders
    BY DEF AccountsAt
<1>3. /\ m \in LoadType /\ m.alive /\ m.height = l.height /\ m.rows = l.rows
      /\ m.listed = AccountsAt(Top)
    BY <1>1, <1>2 DEF LoadType
<1>4. Supersedes(m)
    BY <1>1, <1>3 DEF Supersedes, ExplorerInv, ShownInv
<1>5. /\ loads' = (loads \ {l}) \cup {m}
      /\ UNCHANGED <<ledger, pollVars, accounts, accountsFor, accountError, accountLoading>>
    BY DEF List
<1> HIDE DEF m
<1> QED
    BY <1>1, <1>3, <1>4, <1>5, LoadGoesOn

LEMMA ReadKeepsExplorer ==
    ASSUME ExplorerInv, NEW l \in loads, Read(l)
    PROVE  ExplorerInv'
<1>1. PICK a \in l.listed \ DOMAIN l.rows :
          loads' = (loads \ {l}) \cup
              {[l EXCEPT !.rows = [b \in DOMAIN l.rows \cup {a} |->
                                       IF b = a THEN Top ELSE l.rows[b]]]}
    BY DEF Read
<1> DEFINE rows == [b \in DOMAIN l.rows \cup {a} |-> IF b = a THEN Top ELSE l.rows[b]]
           m == [l EXCEPT !.rows = rows]
<1>2. /\ l \in LoadType /\ l.alive /\ l.height = height
      /\ DOMAIN l.rows \subseteq l.listed /\ l.listed \subseteq AccountsAt(Top)
      /\ \A b \in DOMAIN l.rows : l.height <= l.rows[b] /\ l.rows[b] <= Top
      /\ Supersedes(l)
    BY <1>1 DEF ExplorerInv, LoadInv, ShownInv
<1>3. Top \in Heights /\ height \in Heights \cup {0} /\ height <= Top
    BY DEF ExplorerInv, LedgerInv, PollInv
<1>4. /\ DOMAIN rows = DOMAIN l.rows \cup {a} /\ rows[a] = Top
      /\ \A b \in DOMAIN l.rows : rows[b] = l.rows[b]
    BY <1>1
<1>5. rows \in Balances
    <2>1. l.listed \subseteq Holders /\ \A b \in DOMAIN l.rows : l.rows[b] \in Heights
        BY <1>2 DEF LoadType, Balances
    <2>2. DOMAIN l.rows \cup {a} \in SUBSET Holders
        BY <1>1, <1>2, <2>1
    <2>3. rows \in [DOMAIN l.rows \cup {a} -> Heights]
        BY <1>3, <2>1
    <2> QED
        BY <2>2, <2>3 DEF Balances
<1> HIDE DEF rows
<1>6. m \in LoadType /\ m.alive /\ m.height = l.height /\ m.rows = rows /\ m.listed = l.listed
    BY <1>2, <1>5 DEF LoadType
<1>7. \A b \in DOMAIN rows : l.height <= rows[b] /\ rows[b] <= Top
    <2>1. Top <= Top
        BY <1>3 DEF Heights
    <2> QED
        BY <1>2, <1>3, <1>4, <2>1
<1>8. Supersedes(m)
    <2>1. \A b \in DOMAIN accounts : accounts[b] <= Top
        BY DEF ExplorerInv, ShownInv
    <2> QED
        BY <1>1, <1>2, <1>4, <1>6, <2>1 DEF Supersedes
<1>9. /\ loads' = (loads \ {l}) \cup {m}
      /\ UNCHANGED <<ledger, pollVars, accounts, accountsFor, accountError, accountLoading>>
    BY <1>1 DEF Read, rows
<1> HIDE DEF m
<1>10. DOMAIN m.rows \subseteq m.listed
    BY <1>1, <1>2, <1>4, <1>6
<1> QED
    BY <1>2, <1>6, <1>7, <1>8, <1>9, <1>10, LoadGoesOn

\* A load that is over leaves no other one that is not cancelled.
LEMMA LoadEnds ==
    ASSUME ExplorerInv, NEW l \in loads, loads' = loads \ {l},
           UNCHANGED <<ledger, pollVars>>
    PROVE  /\ LedgerInv' /\ PollInv' /\ LoadInv' /\ height' = height
           /\ Top' = Top /\ AccountsAt(Top)' = AccountsAt(Top)
           /\ l.alive => \A k \in loads' : ~k.alive
<1>1. /\ LedgerInv' /\ PollInv' /\ height' = height
      /\ Top' = Top /\ AccountsAt(Top)' = AccountsAt(Top)
    BY LoadsLeaveTheRest
<1>2. LoadInv'
    BY <1>1 DEF ExplorerInv, LoadInv, LoadType
<1> QED
    BY <1>1, <1>2 DEF ExplorerInv, LoadInv

\* What the finished load of the height shown puts on the page.
LEMMA FinishShows ==
    ASSUME ExplorerInv, NEW l \in loads, Finish(l), l.alive
    PROVE  /\ accounts' = l.rows /\ accountsFor' = height /\ height # 0
           /\ DOMAIN l.rows = l.listed /\ l.listed # {}
           /\ \A a \in DOMAIN accounts : a \in DOMAIN accounts' /\ accounts'[a] >= accounts[a]
           /\ \A a \in DOMAIN accounts' : accounts'[a] >= height
<1>1. /\ accounts' = l.rows /\ accountsFor' = l.height /\ DOMAIN l.rows = l.listed
      /\ l.listed # {}
    BY DEF Finish
<1>2. /\ l.height = height /\ height # 0 /\ Supersedes(l)
      /\ \A a \in DOMAIN l.rows : l.height <= l.rows[a]
    BY DEF ExplorerInv, LoadInv, ShownInv
<1>3. accounts \in Balances /\ l.rows \in Balances /\ height \in Nat
    BY DEF ExplorerInv, LoadInv, LoadType, ShownInv, PollInv, Heights
<1>4. /\ \A a \in DOMAIN accounts : accounts[a] \in Int
      /\ \A a \in DOMAIN l.rows : l.rows[a] \in Int
    BY <1>3 DEF Balances, Heights
<1>5. \A a \in DOMAIN accounts : a \in DOMAIN l.rows /\ accounts[a] <= l.rows[a]
    BY <1>1, <1>2 DEF Supersedes
<1> QED
    BY <1>1, <1>2, <1>3, <1>4, <1>5

LEMMA FinishKeepsExplorer ==
    ASSUME ExplorerInv, NEW l \in loads, Finish(l)
    PROVE  ExplorerInv'
<1>1. /\ LedgerInv' /\ PollInv' /\ LoadInv' /\ height' = height
      /\ Top' = Top /\ AccountsAt(Top)' = AccountsAt(Top)
      /\ l.alive => \A k \in loads' : ~k.alive
    BY LoadEnds DEF Finish
<1>2. accountLoading' \in BOOLEAN /\ loads' = loads \ {l}
    BY DEF Finish, LoadingAfter, ExplorerInv, ShownInv
<1>3. CASE l.alive
    <2>1. /\ accounts' = l.rows /\ accountsFor' = height /\ height # 0
          /\ DOMAIN l.rows = l.listed /\ l.listed # {}
          /\ \A a \in DOMAIN accounts' : accounts'[a] >= height
        BY <1>3, FinishShows
    <2>2. /\ l.rows \in Balances /\ l.listed \subseteq AccountsAt(Top)
          /\ \A a \in DOMAIN l.rows : l.rows[a] <= Top
        BY DEF ExplorerInv, LoadInv, LoadType
    <2>3. accountError' = FALSE
        BY <1>3 DEF Finish
    <2>4. NeverWithoutAccounts'
        BY <2>1, NothingRead DEF NeverWithoutAccounts
    <2>5. BalancesAreOfTheBlock'
        BY <1>1, <2>1 DEF BalancesAreOfTheBlock
    <2> QED
        BY <1>1, <1>2, <1>3, <2>1, <2>2, <2>3, <2>4, <2>5 DEF ExplorerInv, ShownInv
<1>4. CASE ~l.alive
    <2>1. /\ UNCHANGED <<accounts, accountsFor, accountError>>
          /\ accountLoading' = accountLoading
        BY <1>4, Zenon DEF Finish, LoadingAfter, ExplorerInv, ShownInv
    <2>2. \A k \in loads : k.alive => k \in loads'
        BY <1>2, <1>4
    <2>3. BalancesAreOfTheBlock' /\ NeverWithoutAccounts'
        BY <1>1, <2>1, <2>2
        DEF BalancesAreOfTheBlock, NeverWithoutAccounts, ExplorerInv, ShownInv
    <2>4. \A k \in loads' : k.alive => Supersedes(k)'
        BY <1>2, <2>1 DEF ExplorerInv, ShownInv, Supersedes
    <2> QED
        BY <1>1, <1>2, <2>1, <2>3, <2>4 DEF ExplorerInv, ShownInv
<1> QED
    BY <1>3, <1>4

LEMMA FailLoadKeepsExplorer ==
    ASSUME ExplorerInv, NEW l \in loads, FailLoad(l)
    PROVE  ExplorerInv'
<1>1. /\ LedgerInv' /\ PollInv' /\ LoadInv' /\ height' = height
      /\ Top' = Top /\ AccountsAt(Top)' = AccountsAt(Top)
      /\ \A k \in loads' : ~k.alive
    BY LoadEnds DEF FailLoad
<1>2. accountLoading' \in BOOLEAN /\ accountError' = TRUE /\ UNCHANGED accounts
    BY DEF FailLoad, LoadingAfter, ExplorerInv, ShownInv
<1>3. BalancesAreOfTheBlock' /\ NeverWithoutAccounts'
    BY <1>2 DEF BalancesAreOfTheBlock, NeverWithoutAccounts
<1> QED
    BY <1>1, <1>2, <1>3 DEF ExplorerInv, ShownInv

-----------------------------------------------------------------------------
(* The theorems.                                                            *)

LEMMA StepKeepsExplorer == ExplorerInv /\ [Next]_vars => ExplorerInv'
<1> SUFFICES ASSUME ExplorerInv, [Next]_vars PROVE ExplorerInv'
    OBVIOUS
<1>1. CASE UNCHANGED vars
    <2>1. UNCHANGED <<ledger, height, error, lastBlock, blockTime, accountVars, polls>>
        BY <1>1 DEF vars, accountVars
    <2>2. /\ polls' \in [Slots -> Heights \cup {Asked, Failure, NoPoll}]
          /\ \A s \in Slots : polls'[s] <= Top
        BY <2>1 DEF ExplorerInv, PollInv
    <2> QED
        BY <2>1, <2>2, PollsKeepExplorer
<1>2. CASE Next
    BY <1>2, ProduceKeepsExplorer, TickKeepsExplorer, RemountKeepsExplorer,
       ServeKeepsExplorer, ReceiveKeepsExplorer, ListKeepsExplorer, ReadKeepsExplorer,
       FinishKeepsExplorer, FailLoadKeepsExplorer
    DEF Next, Load
<1> QED
    BY <1>1, <1>2

\* However requests, answers and loads overlap and whichever fail, no answer is of
\* a block that is not there yet, one load at most counts, and it is the one of
\* the height shown and no older than what the page shows already.
THEOREM ExplorerInvariant == Spec => []ExplorerInv
<1>1. Init => ExplorerInv
    BY InitKeepsExplorer
<1> QED
    BY <1>1, StepKeepsExplorer, PTL DEF Spec

\* Types; accounts are loaded for the height of a block only.
THEOREM ExplorerIsWellTyped == Spec => []ExplorerTypeOK
<1>1. ExplorerInv => ExplorerTypeOK
    <2> SUFFICES ASSUME ExplorerInv PROVE ExplorerTypeOK
        OBVIOUS
    <2>1. ASSUME NEW l \in loads
          PROVE  /\ l.height \in (IF l.alive THEN Heights ELSE {0})
                 /\ l.listed \subseteq Holders /\ DOMAIN l.rows \subseteq l.listed
                 /\ \A a \in DOMAIN l.rows : l.rows[a] \in Heights
        <3>1. l \in LoadType /\ l.rows \in Balances
            BY DEF ExplorerInv, LoadInv, LoadType
        <3> QED
            BY <3>1 DEF ExplorerInv, LoadInv, LoadType, PollInv, Balances
    <2>2. DOMAIN accounts \subseteq Holders
        BY DEF ExplorerInv, ShownInv, Balances
    <2> QED
        BY <2>1, <2>2 DEF ExplorerInv, LedgerInv, PollInv, ShownInv, ExplorerTypeOK
<1> QED
    BY <1>1, ExplorerInvariant, PTL

\* A page at rest shows balances read at the block it shows or later, however
\* heights and loads overtook each other (App.jsx:50).
THEOREM BalancesMatchTheBlock == Spec => []BalancesAreOfTheBlock
<1>1. ExplorerInv => BalancesAreOfTheBlock
    BY DEF ExplorerInv, ShownInv
<1> QED
    BY <1>1, ExplorerInvariant, PTL

\* The page never says that there are no accounts while there are.
THEOREM AccountsAreNeverDenied == Spec => []NeverWithoutAccounts
<1>1. ExplorerInv => NeverWithoutAccounts
    BY DEF ExplorerInv, ShownInv
<1> QED
    BY <1>1, ExplorerInvariant, PTL

\* The block interval shown is a mean over blocks of the chain.
THEOREM IntervalsAreOfTheChain == Spec => []IntervalIsAMean
<1>1. ExplorerInv => IntervalIsAMean
    BY DEF ExplorerInv, PollInv
<1> QED
    BY <1>1, ExplorerInvariant, PTL

\* A balance on the page is never replaced by an older one, although the height on
\* it may fall back: of all steps only the end of a load changes the balances, and
\* that load read them after the ones shown.
THEOREM NoBalanceGoesBack == Spec => BalancesNeverGoBack
<1> DEFINE Newer == \A a \in DOMAIN accounts :
                        a \in DOMAIN accounts' /\ accounts'[a] >= accounts[a]
<1>1. ExplorerInv /\ [Next]_vars => [Newer]_accounts
    <2> SUFFICES ASSUME ExplorerInv, [Next]_vars, accounts' # accounts PROVE Newer
        OBVIOUS
    <2>1. PICK l \in loads : Finish(l) /\ l.alive
        BY DEF Next, Load, vars, accountVars, Produce, Tick, Remount, Serve, Receive, List,
               Read, Finish, FailLoad
    <2> QED
        BY <2>1, FinishShows
<1> QED
    BY <1>1, ExplorerInvariant, PTL DEF Spec, BalancesNeverGoBack
=============================================================================
