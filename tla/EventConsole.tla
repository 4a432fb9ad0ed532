---------------------------- MODULE EventConsole ----------------------------
(***************************************************************************)
(* The console's App component (frontend/src/App.jsx): the selected reader  *)
(* and settings, the refresh calls in flight, the table they leave behind   *)
(* and the live subscription.  Everything the page awaits is a step of its  *)
(* own, so that calls overlap, are answered in any order and arrive in any  *)
(* order.  A state update and the effects it triggers are one step, as      *)
(* React runs them.  writeData calls are other people's here; ConsoleWrite  *)
(* adds the page's own.                                                     *)
(***************************************************************************)
EXTENDS Readers

CONSTANTS
    NoAddress,     \* the empty address field
    InitConfigs,   \* what loadConfig may return
    MaxIssued      \* bound: the user acts while fewer refresh calls were sent

ASSUME ConsoleAssumption ==
    /\ NoAddress \notin Contracts
    /\ InitConfigs \subseteq Configs
    /\ MaxIssued \in Nat

VARIABLES
    config, readerId, rows, loading, error, liveCount,  \* the component's state
    calls,         \* refresh calls whose promise has not settled
    issued,        \* how many were sent so far: the number of the latest
    sub,           \* the subscription of the second effect
    shown,         \* history: the call the table comes from (number 0: none)
    counted        \* history: the events liveCount has counted

uiVars == <<config, readerId>>
tableVars == <<rows, loading, error, calls, issued, shown>>
liveVars == <<liveCount, sub, counted>>
appVars == <<uiVars, tableVars, liveVars>>

Selection == [reader |-> readerId, config |-> config]

Subscription ==
    [phase : {"off", "locating", "located", "on"}, startBlock : Nat,
     from : Nat, seen : SUBSET Event]

NotSubscribed == [phase |-> "off", startBlock |-> 0, from |-> 0, seen |-> {}]

Nothing == [id |-> 0, view |-> Selection]

-----------------------------------------------------------------------------
\* Mutant: the rows of the previous setting stay.
RefuseKeepingRows(view) ==
    /\ view.reader # "graph" /\ ~isAddress(view.config.address)
    /\ error' = IF view.config.address = NoAddress THEN "" ELSE "invalid address"
    /\ shown' = [id |-> 0, view |-> view]
    /\ UNCHANGED <<rows, loading, calls, issued>>

\* refresh(), up to its only await, as the closure of one rendering: the view
\* is the selection of that rendering.
Refuse(view) ==
    /\ view.reader # "graph" /\ ~isAddress(view.config.address)
    /\ rows' = <<>>
    /\ error' = IF view.config.address = NoAddress THEN "" ELSE "invalid address"
    /\ shown' = [id |-> 0, view |-> view]
    /\ UNCHANGED <<loading, calls, issued>>

\* Mutant: overlapping calls are not told apart.
RequestUnnumbered(view) ==
    /\ view.reader = "graph" \/ isAddress(view.config.address)
    /\ calls' = calls \cup
          {[id |-> issued + 1, view |-> view, answered |-> FALSE, rows |-> <<>>]}
    /\ loading' = TRUE
    /\ error' = ""
    /\ UNCHANGED <<rows, shown, issued>>

Request(view) ==
    /\ view.reader = "graph" \/ isAddress(view.config.address)
    /\ issued' = issued + 1
    /\ calls' = calls \cup
          {[id |-> issued', view |-> view, answered |-> FALSE, rows |-> <<>>]}
    /\ loading' = TRUE
    /\ error' = ""
    /\ UNCHANGED <<rows, shown>>

refresh(view) == Refuse(view) \/ Request(view)

\* The node or the graph computes the answer.  readViaSubgraph throws before
\* it asks when no endpoint is configured.
Answer(call) ==
    /\ ~call.answered
    /\ call.view.reader = "graph" => call.view.config.subgraphUrl
    /\ \E table \in READERS(call.view, AnsweredAt(call.view)) :
          calls' = (calls \ {call}) \cup {[call EXCEPT !.answered = TRUE, !.rows = table]}
    /\ UNCHANGED <<chainVars, graphVars, uiVars, rows, loading, error, issued, shown, liveVars>>

\* Mutant: loading is cleared in the catch clause only.
DeliverWithoutFinally(call) ==
    /\ call.answered
    /\ rows' = call.rows
    /\ calls' = calls \ {call}
    /\ shown' = [id |-> call.id, view |-> call.view]
    /\ UNCHANGED <<chainVars, graphVars, uiVars, loading, error, issued, liveVars>>

\* setRows(result), then the finally clause.
Deliver(call) ==
    /\ call.answered
    /\ rows' = call.rows
    /\ loading' = FALSE
    /\ calls' = calls \ {call}
    /\ shown' = [id |-> call.id, view |-> call.view]
    /\ UNCHANGED <<chainVars, graphVars, uiVars, error, issued, liveVars>>

\* Mutant: loading is cleared after setRows(result) only.
FailWithoutFinally(call) ==
    /\ rows' = <<>>
    /\ error' = "failed"
    /\ calls' = calls \ {call}
    /\ shown' = [id |-> 0, view |-> call.view]
    /\ UNCHANGED <<chainVars, graphVars, uiVars, loading, issued, liveVars>>

\* The catch clause, at any moment: the endpoint is down, the answer is lost.
Fail(call) ==
    /\ rows' = <<>>
    /\ error' = "failed"
    /\ loading' = FALSE
    /\ calls' = calls \ {call}
    /\ shown' = [id |-> 0, view |-> call.view]
    /\ UNCHANGED <<chainVars, graphVars, uiVars, issued, liveVars>>

-----------------------------------------------------------------------------
\* The subscription effect on a selection; its cleanup drops the previous one.
Subscribe(view) ==
    IF isAddress(view.config.address) /\ view.reader # "graph"
    THEN [NotSubscribed EXCEPT !.phase = "locating"]
    ELSE NotSubscribed

UserActs == issued < MaxIssued

\* Both effects depend on refresh, and every new reader or setting makes a new
\* refresh: the table is read again and the subscription replaced.
Reselect(view) ==
    /\ UserActs
    /\ readerId' = view.reader
    /\ config' = view.config
    /\ refresh(view)
    /\ sub' = Subscribe(view)
    /\ UNCHANGED <<chainVars, graphVars, liveCount, counted>>

SelectReader(id) == id # readerId /\ Reselect([Selection EXCEPT !.reader = id])

\* One field of the form at a time.
update(cf) ==
    /\ Cardinality({field \in DOMAIN config : cf[field] # config[field]}) = 1
    /\ Reselect([Selection EXCEPT !.config = cf])

ClickRefresh ==
    /\ UserActs
    /\ refresh(Selection)
    /\ UNCHANGED <<chainVars, graphVars, uiVars, liveVars>>

\* await provider.getBlockNumber()
Locate ==
    /\ sub.phase = "locating"
    /\ sub' = [sub EXCEPT !.phase = "located", !.startBlock = height[config.rpcUrl]]
    /\ UNCHANGED <<chainVars, graphVars, uiVars, tableVars, liveCount, counted>>

\* Nothing catches a failing getBlockNumber: the page stays unsubscribed.
LocateFails ==
    /\ sub.phase = "locating"
    /\ sub' = NotSubscribed
    /\ UNCHANGED <<chainVars, graphVars, uiVars, tableVars, liveCount, counted>>

\* contract.on: the provider installs its filter a little later, and from then
\* on hands over the logs from the current block onwards (App.jsx:96).
Listen ==
    /\ sub.phase = "located"
    /\ sub' = [sub EXCEPT !.phase = "on", !.from = height[config.rpcUrl]]
    /\ UNCHANGED <<chainVars, graphVars, uiVars, tableVars, liveCount, counted>>

\* The logs the provider has still to hand to the listener.
Unseen ==
    {e \in log : /\ e.chain = config.rpcUrl /\ e.to = config.address
                 /\ e.block >= sub.from /\ e \notin sub.seen}

Earlier(e, f) == e.block < f.block \/ (e.block = f.block /\ e.index < f.index)

\* Mutant: the block of the subscription counts as new.
OldEventStrictly(event) == event.block < sub.startBlock

OldEvent(event) == event.block <= sub.startBlock

\* Mutant: the listener counts and does not refresh.
listenerCountsOnly(event) ==
    /\ sub.phase = "on"
    /\ sub' = [sub EXCEPT !.seen = @ \cup {event}]
    /\ IF OldEvent(event)
       THEN UNCHANGED <<liveCount, counted>>
       ELSE liveCount' = liveCount + 1 /\ counted' = counted \cup {event}
    /\ UNCHANGED <<chainVars, graphVars, uiVars, tableVars>>

\* The listener, called with one log after the other in the order of the chain.
listener(event) ==
    /\ sub.phase = "on"
    /\ \A e \in Unseen : ~Earlier(e, event)
    /\ sub' = [sub EXCEPT !.seen = @ \cup {event}]
    /\ IF OldEvent(event)
       THEN UNCHANGED <<tableVars, liveCount, counted>>
       ELSE /\ liveCount' = liveCount + 1
            /\ counted' = counted \cup {event}
            /\ refresh(Selection)
    /\ UNCHANGED <<chainVars, graphVars, uiVars>>

-----------------------------------------------------------------------------
\* The page opens beside a fresh chain; what a chain with a past adds, events of
\* before the subscription, every later subscription meets.
InitApp ==
    /\ config \in InitConfigs
    /\ readerId = "ethers"
    /\ rows = <<>>
    /\ liveCount = 0
    /\ counted = {}
    /\ sub = Subscribe(Selection)
    /\ shown = Nothing
    /\ IF isAddress(config.address)
       THEN /\ issued = 1 /\ loading = TRUE /\ error = ""
            /\ calls = {[id |-> 1, view |-> Selection, answered |-> FALSE, rows |-> <<>>]}
       ELSE /\ issued = 0 /\ loading = FALSE /\ calls = {}
            /\ error = IF config.address = NoAddress THEN "" ELSE "invalid address"

ConsoleInit == Init /\ InitApp

Environment == Next /\ UNCHANGED appVars

App ==
    \/ \E id \in ReaderIds : SelectReader(id)
    \/ \E cf \in Configs : update(cf)
    \/ ClickRefresh
    \/ \E call \in calls : Answer(call)
    \/ \E call \in calls : Deliver(call)
    \/ \E call \in calls : Fail(call)
    \/ Locate
    \/ LocateFails
    \/ Listen
    \/ \E event \in Unseen : listener(event)

ConsoleNext == Environment \/ App

consoleVars == <<chainVars, graphVars, appVars>>

ConsoleSpec == ConsoleInit /\ [][ConsoleNext]_consoleVars

\* Every promise settles, the page runs the callbacks it is owed, the provider
\* polls on, and the node mines what it is sent (Hardhat mines every transaction
\* at once).
Fairness ==
    /\ WF_consoleVars(\E call \in calls : Deliver(call) \/ Fail(call))
    /\ WF_consoleVars(\E call \in calls : Answer(call))
    /\ WF_consoleVars(Locate \/ LocateFails)
    /\ WF_consoleVars(Listen)
    /\ WF_consoleVars(\E event \in Unseen : listener(event))
    /\ WF_consoleVars(IndexBlock /\ UNCHANGED appVars)
    /\ WF_consoleVars(\E c \in Chains : /\ \E t \in pool : t.chain = c
                                        /\ MineBlock(c) /\ UNCHANGED graphVars
                                        /\ UNCHANGED appVars)

FairConsoleSpec == ConsoleSpec /\ Fairness

-----------------------------------------------------------------------------
RefreshCall ==
    [id : Nat \ {0}, view : Views, answered : BOOLEAN, rows : Seq(Row)]

ConsoleTypeOK ==
    /\ TypeOK
    /\ config \in Configs /\ readerId \in ReaderIds
    /\ rows \in Seq(Row)
    /\ loading \in BOOLEAN
    /\ error \in {"", "invalid address", "failed"}
    /\ liveCount \in Nat /\ counted \subseteq Event
    /\ issued \in Nat
    /\ calls \subseteq RefreshCall
    /\ \A c, d \in calls : c.id = d.id => c = d
    /\ \A c \in calls : c.id <= issued
    /\ sub \in Subscription
    /\ shown \in [id : Nat, view : Views]

\* The table on the page is empty or a whole answer of one reader for one
\* setting at one moment: however calls, answers and failures interleave, it
\* never mixes two answers and never shows an event that was not logged.
TableIsASnapshot ==
    /\ shown.id = 0 => rows = <<>>
    /\ \A view \in Views : shown.id # 0 /\ shown.view = view =>
          \E h \in 0..AnsweredAt(view) : rows \in READERS(view, h)

\* frontend/README.md, on the live counter: however often the page subscribes
\* anew while events come in, no event is counted twice.
EventsAreCountedOnce == liveCount = Cardinality(counted)

\* If the table comes from the latest refresh that was sent, with the reader and
\* the settings now selected, it shows every event the subscription reported:
\* only an older call that arrives late can hide a reported event.
LatestCallShowsReportedEvents ==
    shown.id = issued /\ shown.id # 0 /\ shown.view = Selection =>
        \A e \in sub.seen :
            ~OldEvent(e) /\ e.block >= config.fromBlock =>
                \E i \in DOMAIN rows : rows[i].id = EntityId(e)

\* The page says it is reading only while a call is in flight.
LoadingMeansReading == loading => calls # {}

\* "Reading" is never the last thing the page says.
LoadingEnds == loading ~> ~loading

\* frontend/README.md:67: as soon as there is a new event the table refreshes by
\* itself.  Read as: time and again the table shows every event of the selected
\* contract, unless a read or the subscription failed.
Listed(e) ==
    /\ e.chain = config.rpcUrl /\ e.to = config.address
    /\ e.block >= config.fromBlock

ShowsEveryEvent ==
    \A e \in log : Listed(e) => \E i \in DOMAIN rows : rows[i].id = EntityId(e)

TableFollowsTheChain ==
    []<>(ShowsEveryEvent \/ error # "" \/ sub.phase = "off")
=============================================================================
