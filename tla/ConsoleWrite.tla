---------------------------- MODULE ConsoleWrite ----------------------------
(***************************************************************************)
(* The console with its write form (components/WriteForm.jsx).  The form    *)
(* writes through the wallet, to whatever chain the wallet is on when it    *)
(* signs; the page reads through the RPC endpoint of its settings.  The     *)
(* address and the onWritten callback are those of the rendering in which   *)
(* the user submitted, however much later the write is confirmed.  The      *)
(* wallet (external) is connected throughout; its user may change chains.   *)
(***************************************************************************)
EXTENDS EventConsole

CONSTANT MaxSubmits    \* bound: times the form is submitted

ASSUME WriteAssumption == MaxSubmits \in Nat

VARIABLES
    walletChain,   \* the chain the wallet is connected to
    form,          \* the form and the submission it is busy with
    submits        \* how many times it was submitted

formVars == <<walletChain, form, submits>>

\* form has a phase, "idle" (pending = false), "signing" or "waiting"; a status, "none",
\* "pending", "ok" or "error"; the view of the rendering that was submitted; and, one
\* element at most, the calls to be signed and the transactions sent.

disabled == form.phase # "idle" \/ ~isAddress(config.address)

Submit(call) ==
    /\ ~disabled
    /\ submits < MaxSubmits
    /\ submits' = submits + 1
    /\ form' = [phase |-> "signing", status |-> "none", view |-> Selection,
                calls |-> <<call>>, sent |-> {}]
    /\ UNCHANGED <<walletChain, consoleVars>>

\* contract.writeData, on the chain the wallet is on by now.  Gas estimation
\* executes the call first, so that what would revert is never broadcast.
Sign(t) ==
    /\ form.phase = "signing"
    /\ t.chain = walletChain /\ t.to = form.view.config.address /\ t.calls = form.calls
    /\ Succeeds(t)
    /\ Broadcast(t)
    /\ form' = [form EXCEPT !.phase = "waiting", !.status = "pending", !.sent = {t}]
    /\ UNCHANGED <<graphVars, appVars, walletChain, submits>>

\* Mutant: the write is reported without awaiting tx.wait().
ConfirmAtOnce ==
    /\ form.phase = "waiting"
    /\ form' = [form EXCEPT !.phase = "idle", !.status = "ok"]
    /\ refresh(form.view)
    /\ UNCHANGED <<chainVars, graphVars, uiVars, liveVars, walletChain, submits>>

\* Mutant: onWritten is not passed to the form.
ConfirmSilently ==
    /\ form.phase = "waiting"
    /\ \E t \in form.sent, r \in receipts : r.hash = t.hash /\ r.ok
    /\ form' = [form EXCEPT !.phase = "idle", !.status = "ok"]
    /\ UNCHANGED <<consoleVars, walletChain, submits>>

\* Mutant: pending is cleared in the catch clause only.
ConfirmWithoutFinally ==
    /\ form.phase = "waiting" /\ form.status = "pending"
    /\ \E t \in form.sent, r \in receipts : r.hash = t.hash /\ r.ok
    /\ form' = [form EXCEPT !.status = "ok"]
    /\ refresh(form.view)
    /\ UNCHANGED <<chainVars, graphVars, uiVars, liveVars, walletChain, submits>>

\* tx.wait() resolves.  onWritten is the refresh of the submitted rendering.
Confirm ==
    /\ form.phase = "waiting"
    /\ \E t \in form.sent, r \in receipts : r.hash = t.hash /\ r.ok
    /\ form' = [form EXCEPT !.phase = "idle", !.status = "ok"]
    /\ refresh(form.view)
    /\ UNCHANGED <<chainVars, graphVars, uiVars, liveVars, walletChain, submits>>

\* The catch clause: the user rejects, the estimation reverts, the wallet or
\* its node stops answering.  A broadcast transaction stays broadcast.
Catch ==
    /\ form.phase # "idle"
    /\ form' = [form EXCEPT !.phase = "idle", !.status = "error", !.sent = {}]
    /\ UNCHANGED <<consoleVars, walletChain, submits>>

SwitchChain(c) ==
    /\ walletChain # c
    /\ walletChain' = c
    /\ UNCHANGED <<consoleVars, form, submits>>

InitForm ==
    /\ walletChain \in Chains
    /\ form = [phase |-> "idle", status |-> "none", view |-> Selection,
               calls |-> <<>>, sent |-> {}]
    /\ submits = 0

WriteInit == ConsoleInit /\ InitForm

WriteForm ==
    \/ \E call \in Call : Submit(call)
    \/ \E t \in Transaction : Sign(t)
    \/ Confirm
    \/ Catch
    \/ \E c \in Chains : SwitchChain(c)

WriteNext ==
    \/ ConsoleNext /\ UNCHANGED formVars
    \/ WriteForm

writeVars == <<consoleVars, formVars>>

WriteSpec == WriteInit /\ [][WriteNext]_writeVars

\* wait() resolves once there is a receipt; the node mines what it is sent.
FairWriteSpec ==
    /\ WriteSpec
    /\ WF_writeVars(Confirm)
    /\ WF_writeVars(\E c \in Chains : /\ \E t \in pool : t.chain = c
                                      /\ MineBlock(c)
                                      /\ UNCHANGED <<graphVars, appVars, formVars>>)

-----------------------------------------------------------------------------
Reported(e) == \E t \in form.sent : e.hash = t.hash

\* When the form reports a write as mined and the address it wrote to holds an
\* EventStore on that chain, the chain holds exactly one event of it, with the
\* key and the value that were submitted, whatever was typed or selected since.
ConfirmedWriteIsOneEvent ==
    \A t \in form.sent :
        form.status = "ok" /\ RunsContract(t) =>
            \E e \in log :
                /\ <<e.chain, e.to, e.key, e.value>> =
                     <<t.chain, form.view.config.address,
                       form.calls[1].key, form.calls[1].value>>
                /\ \A f \in log : Reported(f) <=> f = e

\* When the form reports a write as mined, the page reads the chain it was
\* written to, and the table comes from the latest refresh that was sent, with
\* the reader and the settings now selected, then the write is in the table:
\* only an older call that arrives late can hide it.
OwnWriteIsShown ==
    /\ form.status = "ok"
    /\ readerId # "graph"
    /\ shown.id = issued /\ shown.id # 0 /\ shown.view = Selection
    => \A e \in log :
          Reported(e) /\ Listed(e) => \E i \in DOMAIN rows : rows[i].id = EntityId(e)

\* A submission that was broadcast does not keep the form disabled for ever.
WaitingEnds == form.phase = "waiting" ~> form.phase # "waiting"

\* WriteForm.jsx:43-45: the form calls writeData, which does nothing but emit a
\* DataWritten event; so a write it reports as mined has emitted one.
ReportedWriteEmitted == form.status = "ok" => \E e \in log : Reported(e)
=============================================================================
