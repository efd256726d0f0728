--------------------------- MODULE ServiceSettings ---------------------------
(***************************************************************************)
(* The settings page (desktop_qml/settings_bridge.py), the facade's service *)
(* operations (composition.py), the settings row and the AI row below them  *)
(* (persistence/service_settings.py, global_ai_config.py) and the adapters  *)
(* built from the rows.                                                     *)
(*                                                                          *)
(* Slots run on the Qt thread, checks of services on one pool task at a     *)
(* time.  Each operation reads, works, and writes in transactions of its    *)
(* own, so the two threads interleave between those: an operation is a      *)
(* sequence of atomic steps, and a thread holds what is left of it.         *)
(***************************************************************************)
EXTENDS Naturals, Sequences

CONSTANTS Clients,      \* OAuth client ids the provider may register
          Models,       \* AI models
          MaxRevision,  \* AI configurations saved
          MaxBuilds     \* adapters built

VARIABLES
    row,      \* the settings row
    ai,       \* the AI row: its revision, 0 for none, and model
    tokens,   \* clients with an OAuth token on disk
    adapters, \* the provider in use, the open ones, how many builds were tried
    thread,   \* what the Qt thread and the pool task are doing
    page      \* what the settings page keeps, whether a reset ever ran while a
              \* task did, and whether a check was ever left in the registry

vars == <<row, ai, tokens, adapters, thread, page>>

Threads == {"qt", "task"}
None == "none"
DefaultRow == [mode |-> "longbridge", client |-> None, futu |-> FALSE, started |-> FALSE]
NoAi == [rev |-> 0, model |-> None]
Resting == [op |-> None, todo |-> <<>>, arg |-> None, ok |-> TRUE, reserved |-> FALSE,
            current |-> DefaultRow, model |-> None, value |-> DefaultRow, seen |-> 0,
            built |-> 0, previous |-> 0]
CleanPage == [provider |-> "longbridge", checks |-> "pending", pending |-> None,
              reset |-> FALSE, erasedUnder |-> FALSE, stuck |-> FALSE]

Init ==
    /\ row = DefaultRow /\ ai = NoAi /\ tokens = {}
    /\ adapters = [used |-> 1, open |-> {1}, made |-> 1]
    /\ thread = [t \in Threads |-> Resting]
    /\ page = CleanPage

(* Whether the provider in a row may be used.                               *)
Configured(r) == IF r.mode = "futu" THEN r.futu ELSE r.client \in tokens

(* An operation as the steps it takes; "work" stands for all the network    *)
(* calls of a check.  The adapters are reloaded in three of them, and the   *)
(* two rows are saved in four.                                              *)
SaveSettings == <<"current", "value", "write", "readAi", "writeAi", "build", "assign", "close">>
MarkStarted == <<"allow", "value", "write">>
ResetLocalData == <<"refuseWhileActive", "erase", "build", "assign", "close">>
ActivateProvider == <<"allow", "value", "write", "build", "assign", "close">>
AuthorizeLongbridge == <<"work">>
QualityFutu == <<"reserve", "work", "value", "write">>
QualityLongbridge ==
    <<"current", "reserve", "work", "value", "write", "readAi", "writeAi", "dropToken",
      "build", "assign", "close">>
ConfigureAi ==
    <<"current", "reserve", "work", "value", "write", "readAi", "writeAi",
      "build", "assign", "close", "allow", "value", "start">>
ProbeOnly == <<"work">>

Steps(op) ==
    CASE op = "save" -> SaveSettings
      [] op = "completeFirstRun" -> MarkStarted
      [] op = "reset" -> ResetLocalData
      [] op = "activate" -> ActivateProvider
      [] op = "authorize" -> AuthorizeLongbridge
      [] op = "qualityFutu" -> QualityFutu
      [] op = "qualityLongbridge" -> QualityLongbridge
      [] op = "configureAi" -> ConfigureAi
      [] op = "probe" -> ProbeOnly

Begin(t, op, arg) ==
    /\ thread[t].op = None
    /\ thread' = [thread EXCEPT ![t] = [Resting EXCEPT !.op = op, !.arg = arg, !.todo = Steps(op)]]

-----------------------------------------------------------------------------
(* The slots.  All run on the Qt thread, so none runs inside another.       *)

Slot == thread["qt"].op = None
Busy == thread["task"].op # None

(* What is saved without a check is saved whatever the pool task does.      *)
SaveAi == Slot /\ \E m \in Models \cup {None} : Begin("qt", "save", m) /\ UNCHANGED page
SelectAiModel == Slot /\ \E m \in Models : Begin("qt", "save", m) /\ UNCHANGED page
SaveNetwork == Slot /\ Begin("qt", "save", None) /\ UNCHANGED page
SetDeveloperMode == Slot /\ Begin("qt", "save", None) /\ UNCHANGED page
CompleteFirstRun == Slot /\ Begin("qt", "completeFirstRun", None) /\ UNCHANGED page

RequestReset == Slot /\ page' = [page EXCEPT !.reset = TRUE] /\ UNCHANGED thread
CancelReset == Slot /\ page' = [page EXCEPT !.reset = FALSE] /\ UNCHANGED thread
ConfirmReset == Slot /\ page.reset /\ Begin("qt", "reset", None) /\ UNCHANGED page

(* Checks already passed once are shown as passed.                          *)
SelectProvider(p) ==
    /\ Slot /\ p # page.provider
    /\ page' = [page EXCEPT !.provider = p,
                   !.checks = IF (IF p = "futu" THEN row.futu ELSE row.client # None)
                              THEN "passed" ELSE "pending"]
    /\ UNCHANGED thread

AuthorizeProvider ==
    /\ Slot /\ ~Busy
    /\ \E c \in Clients \ tokens : Begin("task", "authorize", c)
    /\ UNCHANGED page

QualityProvider ==
    /\ Slot /\ ~Busy
    /\ LET candidate == IF page.pending # None THEN page.pending ELSE row.client
       IN  IF page.provider = "futu"
           THEN Begin("task", "qualityFutu", None)
           ELSE candidate # None /\ Begin("task", "qualityLongbridge", candidate)
    /\ page' = [page EXCEPT !.checks = "checking"]

ActivateSelectedProvider ==
    /\ Slot /\ ~Busy
    /\ IF page.provider = "futu" THEN row.futu ELSE row.client # None
    /\ Begin("task", "activate", page.provider)
    /\ UNCHANGED page

AutoConfigureAi ==
    /\ Slot /\ ~Busy
    /\ \E m \in Models : Begin("task", "configureAi", m)
    /\ UNCHANGED page

(* A check that saves nothing: of the proxy, of Yahoo, of the saved model,  *)
(* or the list of models.                                                   *)
QualityYahoo == Slot /\ ~Busy /\ Begin("task", "probe", None) /\ UNCHANGED page

(* The callback of a task, whatever the page has become meanwhile.          *)
Returned(ops) ==
    /\ Slot /\ Busy /\ thread["task"].todo = <<>> /\ thread["task"].op \in ops
    /\ thread' = [thread EXCEPT !["task"] = Resting]

ProviderFinished ==
    /\ Returned({"qualityFutu", "qualityLongbridge"})
    /\ page' = IF thread["task"].ok THEN [page EXCEPT !.pending = None, !.checks = "passed"]
               ELSE [page EXCEPT !.checks = "failed"]

AuthorizationFinished ==
    /\ Returned({"authorize"})
    /\ page' = IF thread["task"].ok THEN [page EXCEPT !.pending = thread["task"].arg] ELSE page

ProviderActivationFinished == Returned({"activate"}) /\ UNCHANGED page
AiSetupFinished == Returned({"configureAi"}) /\ UNCHANGED page
ProbeFinished == Returned({"probe"}) /\ UNCHANGED page

(* The end of a slot; a reset that went through clears the page.            *)
SlotReturns ==
    /\ ~Slot /\ thread["qt"].todo = <<>>
    /\ thread' = [thread EXCEPT !["qt"] = Resting]
    /\ page' = IF thread["qt"].op = "reset" /\ thread["qt"].ok
             THEN [CleanPage EXCEPT !.erasedUnder = page.erasedUnder, !.stuck = page.stuck] ELSE page

SlotNext ==
    /\ \/ SaveAi \/ SelectAiModel \/ SaveNetwork \/ SetDeveloperMode
       \/ CompleteFirstRun \/ RequestReset \/ CancelReset \/ ConfirmReset
       \/ \E p \in {"longbridge", "futu"} : SelectProvider(p)
       \/ AuthorizeProvider \/ QualityProvider \/ ActivateSelectedProvider \/ AutoConfigureAi
       \/ QualityYahoo \/ ProviderFinished \/ AuthorizationFinished
       \/ ProviderActivationFinished \/ AiSetupFinished \/ ProbeFinished \/ SlotReturns
    /\ UNCHANGED <<row, ai, tokens, adapters>>

-----------------------------------------------------------------------------
(* The steps.                                                               *)

At(t, step) == thread[t].todo # <<>> /\ Head(thread[t].todo) = step
Went(t) == [thread[t] EXCEPT !.todo = Tail(@)]
Goes(t, to) == thread' = [thread EXCEPT ![t] = to]
Fails(t) == Goes(t, [thread[t] EXCEPT !.todo = <<>>, !.ok = FALSE, !.reserved = FALSE])

(* What the operation knows of the settings from here on.                   *)
ReadCurrent(t) ==
    /\ At(t, "current")
    /\ Goes(t, [Went(t) EXCEPT !.current = row, !.model = ai.model])
    /\ UNCHANGED <<row, ai, tokens, adapters>>

(* The OpenD check of a packaged application is another process, with a     *)
(* registry of its own.                                                     *)
Reserve(t) ==
    /\ At(t, "reserve")
    /\ \E seen \in IF thread[t].op = "qualityFutu" THEN BOOLEAN ELSE {TRUE} :
          Goes(t, [Went(t) EXCEPT !.reserved = seen])
    /\ UNCHANGED <<row, ai, tokens, adapters>>

FaultyWorkFails(t) ==
    /\ At(t, "work")
    /\ Fails(t)
    /\ tokens' = IF thread[t].op = "qualityLongbridge" THEN tokens \ {thread[t].arg} ELSE tokens
    /\ UNCHANGED <<row, ai, adapters>>

(* _failed_longbridge_quality: the token of a candidate that is not the     *)
(* configured client is of no more use.                                     *)
WorkFails(t) ==
    /\ At(t, "work")
    /\ Fails(t)
    /\ tokens' = IF thread[t].op = "qualityLongbridge" /\ thread[t].arg # thread[t].current.client
                 THEN tokens \ {thread[t].arg} ELSE tokens
    /\ UNCHANGED <<row, ai, adapters>>

WorkPasses(t) ==
    /\ At(t, "work")
    /\ Goes(t, Went(t))
    /\ tokens' = IF thread[t].op = "authorize" THEN tokens \cup {thread[t].arg} ELSE tokens
    /\ UNCHANGED <<row, ai, adapters>>

(* A timed-out worker process has written, or not, and is reported failed.  *)
WorkerTimesOut(t) ==
    /\ At(t, "write") /\ thread[t].op = "qualityFutu" /\ ~thread[t].reserved
    /\ Fails(t)
    /\ row' \in {row, [thread[t].value EXCEPT !.futu = TRUE]}
    /\ UNCHANGED <<ai, tokens, adapters>>

FaultyAllow(t) ==
    /\ At(t, "allow")
    /\ Goes(t, Went(t))
    /\ UNCHANGED <<row, ai, tokens, adapters>>

(* activate_provider and complete_first_run check first.                    *)
Allow(t) ==
    /\ At(t, "allow")
    /\ IF Configured(IF thread[t].op = "activate" THEN [row EXCEPT !.mode = thread[t].arg] ELSE row)
       THEN Goes(t, Went(t)) ELSE Fails(t)
    /\ UNCHANGED <<row, ai, tokens, adapters>>

(* The row is read in one transaction and written back in another.          *)
ReadValue(t) ==
    /\ At(t, "value")
    /\ Goes(t, [Went(t) EXCEPT !.value = row])
    /\ UNCHANGED <<row, ai, tokens, adapters>>

(* save writes the whole input, most of it from the settings read at the    *)
(* start; the others change one field.                                      *)
Written(th) ==
    CASE th.op \in {"save", "configureAi"} ->
             [th.value EXCEPT !.mode = th.current.mode, !.client = th.current.client]
      [] th.op = "qualityLongbridge" ->
             [th.value EXCEPT !.mode = "longbridge", !.client = th.arg]
      [] th.op = "qualityFutu" -> [th.value EXCEPT !.futu = TRUE]
      [] th.op = "activate" -> [th.value EXCEPT !.mode = th.arg]
      [] th.op = "completeFirstRun" -> [th.value EXCEPT !.started = TRUE]

WriteRow(t) ==
    /\ At(t, "write")
    /\ row' = Written(thread[t])
    /\ Goes(t, [Went(t) EXCEPT !.value = DefaultRow,
                              !.reserved = @ /\ thread[t].op # "qualityFutu"])
    /\ UNCHANGED <<ai, tokens, adapters>>

WriteStarted(t) ==
    /\ At(t, "start")
    /\ row' = [thread[t].value EXCEPT !.started = TRUE]
    /\ Goes(t, [Went(t) EXCEPT !.reserved = FALSE])
    /\ UNCHANGED <<ai, tokens, adapters>>

ReadAi(t) ==
    /\ At(t, "readAi")
    /\ Goes(t, [Went(t) EXCEPT !.seen = ai.rev])
    /\ UNCHANGED <<row, ai, tokens, adapters>>

(* The AI row is written under its revision: a revision read before another *)
(* write raises.  Without a row only a new key makes one.                   *)
WriteAi(t) ==
    LET th == thread[t]
        model == IF th.op = "configureAi" \/ (th.op = "save" /\ th.arg # None) THEN th.arg ELSE th.model
        passed == [Went(t) EXCEPT !.seen = 0, !.model = None]
        changed == th.op = "configureAi" \/ (th.seen # 0 /\ model # ai.model)
    IN  /\ At(t, "writeAi")
        /\ IF ~changed
           THEN Goes(t, passed) /\ UNCHANGED ai
           ELSE IF th.seen # ai.rev
           THEN Fails(t) /\ UNCHANGED ai
           ELSE /\ ai.rev < MaxRevision
                /\ ai' = [rev |-> ai.rev + 1, model |-> model]
                /\ Goes(t, passed)
        /\ UNCHANGED <<row, tokens, adapters>>

(* The token of the client that was configured when the check began.        *)
DropToken(t) ==
    /\ At(t, "dropToken")
    /\ tokens' = IF thread[t].current.client # thread[t].arg
                 THEN tokens \ {thread[t].current.client} ELSE tokens
    /\ Goes(t, [Went(t) EXCEPT !.current = DefaultRow])
    /\ UNCHANGED <<row, ai, adapters>>

(* _reload_adapters: build new ones beside the old, put them in, close the  *)
(* old, on either thread.                                                   *)
Build(t) ==
    /\ At(t, "build")
    /\ adapters.made < MaxBuilds
    /\ LET id == adapters.made + 1
       IN  /\ adapters' = [adapters EXCEPT !.made = id, !.open = @ \cup {id}]
           /\ Goes(t, [Went(t) EXCEPT !.built = id, !.previous = adapters.used])
    /\ UNCHANGED <<row, ai, tokens>>

(* A builder that raises leaves the old adapters in place and the rows as   *)
(* they were written.                                                       *)
BuildFails(t) ==
    /\ At(t, "build")
    /\ adapters.made < MaxBuilds
    /\ adapters' = [adapters EXCEPT !.made = @ + 1]
    /\ Fails(t)
    /\ UNCHANGED <<row, ai, tokens>>

Assign(t) ==
    /\ At(t, "assign")
    /\ adapters' = [adapters EXCEPT !.used = thread[t].built]
    /\ Goes(t, Went(t))
    /\ UNCHANGED <<row, ai, tokens>>

CloseProvider(t, old) ==
    /\ At(t, "close")
    /\ adapters' = [adapters EXCEPT !.open = @ \ {old}]
    /\ Goes(t, [Went(t) EXCEPT !.built = 0, !.previous = 0,
                              !.reserved = @ /\ thread[t].op = "configureAi"])
    /\ UNCHANGED <<row, ai, tokens>>

(* The provider of the application when the old one is closed.              *)
FaultyClose(t) == CloseProvider(t, adapters.used)

Close(t) == CloseProvider(t, thread[t].previous)

(* reset_local_data refuses while an operation is registered.               *)
RefuseWhileActive(t) ==
    /\ At(t, "refuseWhileActive")
    /\ IF thread["task"].reserved \/ page.stuck THEN Fails(t) ELSE Goes(t, Went(t))
    /\ UNCHANGED <<row, ai, tokens, adapters>>

Erase(t) ==
    /\ At(t, "erase")
    /\ tokens' = tokens \ {row.client}
    /\ row' = DefaultRow /\ ai' = NoAi
    /\ Goes(t, Went(t))
    /\ UNCHANGED adapters

(* quality_longbridge saves and reloads outside its try block: what that    *)
(* raises ends the task and not the operation.                              *)
LeavesOperation(t) ==
    /\ thread[t].op = "qualityLongbridge" /\ ~thread'[t].ok
    /\ At(t, "writeAi") \/ At(t, "build")

StepNext(t) ==
    /\ \/ ReadCurrent(t) \/ Reserve(t) \/ WorkFails(t) \/ WorkPasses(t) \/ WorkerTimesOut(t)
       \/ Allow(t) \/ ReadValue(t) \/ WriteRow(t) \/ WriteStarted(t)
       \/ ReadAi(t) \/ WriteAi(t) \/ DropToken(t)
       \/ Build(t) \/ BuildFails(t) \/ Assign(t) \/ Close(t)
       \/ RefuseWhileActive(t) \/ Erase(t)
    /\ page' = [page EXCEPT !.erasedUnder = @ \/ (At(t, "erase") /\ Busy),
                           !.stuck = @ \/ LeavesOperation(t)]

Next == SlotNext \/ \E t \in Threads : StepNext(t)

Spec == Init /\ [][Next]_vars

-----------------------------------------------------------------------------
Rows == [mode : {"longbridge", "futu"}, client : Clients \cup {None},
         futu : BOOLEAN, started : BOOLEAN]
SlotOps == {"save", "completeFirstRun", "reset"}
TaskOps == {"activate", "authorize", "qualityFutu", "qualityLongbridge", "configureAi", "probe"}
StepNames == {"current", "reserve", "work", "allow", "value", "write", "start", "readAi", "writeAi",
              "dropToken", "build", "assign", "close", "refuseWhileActive", "erase"}

(* What a thread is called with is of the kind its operation takes.         *)
Args(op) ==
    CASE op = "activate" -> {"longbridge", "futu"}
      [] op = "authorize" -> Clients
      [] op = "qualityLongbridge" -> Clients \cup {None}
      [] op \in {"save", "configureAi"} -> Models \cup {None}
      [] OTHER -> {None}

Jobs == [op : SlotOps \cup TaskOps \cup {None}, todo : Seq(StepNames),
         arg : Clients \cup Models \cup {None, "longbridge", "futu"}, ok : BOOLEAN,
         reserved : BOOLEAN, current : Rows, model : Models \cup {None}, value : Rows,
         seen : 0..MaxRevision, built : 0..MaxBuilds, previous : 0..MaxBuilds]

TypeOK ==
    /\ row \in Rows
    /\ ai \in [rev : 0..MaxRevision, model : Models \cup {None}]
    /\ tokens \subseteq Clients
    /\ adapters \in [used : 1..MaxBuilds, open : SUBSET (1..MaxBuilds), made : 1..MaxBuilds]
    /\ thread \in [Threads -> Jobs] /\ \A t \in Threads : thread[t].arg \in Args(thread[t].op)
    /\ page \in [provider : {"longbridge", "futu"}, checks : {"pending", "checking", "passed", "failed"},
                 pending : Clients \cup {None}, reset : BOOLEAN, erasedUnder : BOOLEAN,
                 stuck : BOOLEAN]

(* Two threads may reload the adapters at once; one may leak then, but the  *)
(* provider in use is never a closed one.                                   *)
UsedIsOpen == adapters.used \in adapters.open

(* The Futu provider is active only while its check is on record, although  *)
(* every write may undo what another thread wrote after it read: slots run  *)
(* one at a time, and only a slot starts a task.  A reset is not kept from  *)
(* running while a provider is activated, and then it does not hold.        *)
ActiveIsChecked == ~page.erasedUnder /\ row.mode = "futu" => row.futu

(* A check that fails takes no token from the client the settings name.     *)
FailedCheckKeepsToken ==
    /\ thread["task"].op = "qualityLongbridge"
    /\ thread["task"].ok /\ ~thread'["task"].ok
    /\ row.client \in tokens
    => row.client \in tokens'

-----------------------------------------------------------------------------
(* Why they hold.  What an operation does next follows from what it did.    *)
Follows(before, step) ==
    /\ step \in {"write", "start"} => before = "value"
    /\ step = "assign" => before = "build"
    /\ step = "close" => before = "assign"

Chained(todo) == \A i \in 2..Len(todo) : Follows(todo[i - 1], todo[i])

RowOps == {"save", "completeFirstRun", "activate", "qualityFutu", "qualityLongbridge", "configureAi"}

WritesFit(op, todo) ==
    \A i \in 1..Len(todo) :
       /\ todo[i] = "write" => op \in RowOps /\ (op = "qualityFutu" => i = Len(todo))
       /\ todo[i] = "erase" => op = "reset"

StepsInv ==
    /\ thread["qt"].op \in SlotOps \cup {None} /\ thread["task"].op \in TaskOps \cup {None}
    /\ \A t \in Threads :
          /\ thread[t].op = None => thread[t].todo = <<>>
          /\ Chained(thread[t].todo) /\ WritesFit(thread[t].op, thread[t].todo)

(* What was built and not yet assigned is open and nobody's to close.       *)
AdaptersInv ==
    /\ adapters.used <= adapters.made /\ \A id \in adapters.open : id <= adapters.made
    /\ \A t \in Threads :
          /\ At(t, "assign") =>
                /\ thread[t].built \in adapters.open /\ thread[t].built # adapters.used
                /\ \A u \in Threads : At(u, "assign") \/ At(u, "close") =>
                      /\ thread[u].previous # thread[t].built
                      /\ u # t => thread[u].built # thread[t].built
          /\ At(t, "close") => thread[t].previous # adapters.used
          /\ At(t, "assign") \/ At(t, "close") =>
                thread[t].built <= adapters.made /\ thread[t].previous <= adapters.made

(* A row is written as it was read but for what the operation is about: only*)
(* a finished check of OpenD may have come between, and nothing follows it  *)
(* before the slot returns.                                                 *)
Writes(t) == At(t, "write") \/ At(t, "start")

Lagging == row.futu /\ thread["task"].op = "qualityFutu" /\ thread["task"].todo = <<>>

RowInv ==
    ~page.erasedUnder =>
        /\ Writes("task") => thread["task"].value.futu = row.futu
        /\ Writes("qt") => thread["qt"].value.futu = row.futu \/ Lagging
        /\ \A t \in Threads :
              /\ Writes(t) /\ thread[t].value.mode = "futu" => thread[t].value.futu
              /\ thread[t].op \in {"save", "configureAi"} /\ thread[t].current.mode = "futu" =>
                    row.futu /\ (Writes(t) => thread[t].value.futu)
        /\ thread["task"].op = "activate" /\ thread["task"].arg = "futu" => row.futu

PartInv == TypeOK /\ StepsInv /\ AdaptersInv /\ RowInv /\ UsedIsOpen /\ ActiveIsChecked

-----------------------------------------------------------------------------
(* What does not hold.                                                      *)

(* The client the settings name has its token: a slot writes back the one   *)
(* it read before a check replaced it.                                      *)
ClientHasToken ==
    (\A t \in Threads : thread[t].op = None) /\ row.client # None => row.client \in tokens

(* Nothing of a running check is written after a reset.                     *)
ResetStays == [][row = DefaultRow /\ thread["task"].op # None => row' = row]_vars

(* A check that ended left nothing in the registry, or no reset is possible *)
(* until the application is started again.                                  *)
NothingStuck == ~page.stuck

(* No adapter but the one in use is open when both threads rest.            *)
NoneLeaks == (\A t \in Threads : thread[t].op = None) => adapters.open = {adapters.used}

(* A model the user saved is not replaced by the check of another service.  *)
ModelStays ==
    [][thread["task"].op = "qualityLongbridge" /\ ai.rev # 0 /\ ai'.model # ai.model
        => thread["task"] = thread'["task"]]_vars

(* Checks shown as passed are those of the provider shown.                  *)
ChecksAreOfProvider ==
    page.checks = "passed" => IF page.provider = "futu" THEN row.futu ELSE row.client # None
=============================================================================
