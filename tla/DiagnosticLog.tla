---------------------------- MODULE DiagnosticLog ----------------------------
(***************************************************************************)
(* The diagnostic log (infrastructure/diagnostics/jsonl.py): any thread     *)
(* emits events without waiting for the disk, one daemon thread writes      *)
(* them.  Events wait in a bounded queue; when it is full a DEBUG event is  *)
(* dropped and another one goes to a bounded deque of important events,     *)
(* which pushes out its oldest.  A flush, clear or close is a command in    *)
(* the same queue, whose caller waits a bounded time to be told it is done. *)
(*                                                                          *)
(* An event is its thread and its number there.  The size of a file is left *)
(* out: any write may be the one after which the file is rotated.           *)
(***************************************************************************)
EXTENDS Naturals, Sequences, SequencesExt

CONSTANTS Threads,
          Capacity,     \* places in the queue
          Important,    \* places in the deque
          MaxEvents     \* events and commands of one thread

VARIABLES
    queue,     \* events and commands waiting
    important, \* important events waiting
    writer,    \* the writer: its step, the item in its hand, its file handle
    disk,      \* events in the files
    closed,    \* whether a close was asked for
    caller     \* per thread: its step, how far it is, what it asked and was told

vars == <<queue, important, writer, disk, closed, caller>>

Commands == {"flush", "clear", "close"}
None == [from |-> "nobody", number |-> 0, action |-> "none"]
Event(t) == [from |-> t, number |-> caller[t].next, action |-> "event"]
Command(t) == [from |-> t, number |-> caller[t].next, action |-> caller[t].asked]
IsEvent(item) == item.action = "event"

Init ==
    /\ queue = <<>> /\ important = <<>> /\ disk = {} /\ closed = FALSE
    /\ writer = [at |-> "loop", item |-> None, open |-> TRUE]
    /\ caller = [t \in Threads |-> [at |-> "free", next |-> 1, asked |-> "none", told |-> FALSE]]

Alive == writer.at # "dead"
Full == Len(queue) = Capacity
At(t, where) == caller[t].at = where
Goto(t, where) == caller' = [caller EXCEPT ![t].at = where]
Counted(t) == [caller EXCEPT ![t].at = "free", ![t].next = @ + 1]

-----------------------------------------------------------------------------
(* Emitting.  The queue is seen full first and the deque appended later.    *)
MayCall(t) == At(t, "free") /\ caller[t].next <= MaxEvents

Emit(t) ==
    /\ MayCall(t) /\ ~closed
    /\ IF Full
       THEN /\ UNCHANGED queue
            /\ \E level \in {"DEBUG", "INFO"} :
                 caller' = IF level = "DEBUG" THEN Counted(t)
                           ELSE [caller EXCEPT ![t].at = "full"]
       ELSE /\ queue' = Append(queue, Event(t))
            /\ caller' = Counted(t)
    /\ UNCHANGED <<important, writer, disk, closed>>

(* A deque without its maxlen.                                              *)
FaultyKeepImportant(t) ==
    /\ At(t, "full")
    /\ important' = Append(important, Event(t))
    /\ caller' = Counted(t)
    /\ UNCHANGED <<queue, writer, disk, closed>>

(* The deque has a maxlen: its oldest event makes room.                     *)
KeepImportant(t) ==
    /\ At(t, "full")
    /\ important' = Append(IF Len(important) = Important THEN Tail(important) ELSE important, Event(t))
    /\ caller' = Counted(t)
    /\ UNCHANGED <<queue, writer, disk, closed>>

-----------------------------------------------------------------------------
(* A command.  A close forbids later events and commands before it is even  *)
(* in the queue.                                                            *)
Tell(t, answer) == [caller EXCEPT ![t].at = "told", ![t].told = answer]

Ask(t, action) ==
    /\ MayCall(t) /\ ~closed
    /\ closed' = (action = "close")
    /\ caller' = [caller EXCEPT ![t].asked = action, ![t].told = FALSE,
                     ![t].at = IF Alive THEN "put" ELSE "told"]
    /\ UNCHANGED <<queue, important, writer, disk>>

PutCommand(t) ==
    /\ At(t, "put") /\ ~Full
    /\ queue' = Append(queue, Command(t))
    /\ Goto(t, "wait")
    /\ UNCHANGED <<important, writer, disk, closed>>

(* The queue stayed full, or the command was not done in time: the caller   *)
(* is told no, and what it has put stays in the queue.                      *)
GiveUp(t) ==
    /\ caller[t].at \in {"put", "wait"}
    /\ caller' = Tell(t, FALSE)
    /\ UNCHANGED <<queue, important, writer, disk, closed>>

Continue(t) ==
    /\ At(t, "told")
    /\ caller' = [Counted(t) EXCEPT ![t].asked = "none", ![t].told = FALSE]
    /\ UNCHANGED <<queue, important, writer, disk, closed>>

-----------------------------------------------------------------------------
(* The writer.  It looks at the deque before it waits for the queue.        *)
PopImportant ==
    /\ writer.at = "loop"
    /\ IF important # <<>>
       THEN /\ writer' = [writer EXCEPT !.at = "handle", !.item = Head(important)]
            /\ important' = Tail(important)
       ELSE /\ writer' = [writer EXCEPT !.at = "get"]
            /\ UNCHANGED important
    /\ UNCHANGED <<queue, disk, closed, caller>>

Get ==
    /\ writer.at = "get" /\ queue # <<>>
    /\ writer' = [writer EXCEPT !.at = "handle", !.item = Head(queue)]
    /\ queue' = Tail(queue)
    /\ UNCHANGED <<important, disk, closed, caller>>

Item == writer.item
Loop == [writer EXCEPT !.at = "loop", !.item = None]
Dead == [writer EXCEPT !.at = "dead", !.item = None, !.open = FALSE]

(* A write may fail, and so may the opening of the next file, which leaves  *)
(* the writer with a closed one; writing to that is an error nobody takes.  *)
WriteEvent ==
    /\ writer.at = "handle" /\ IsEvent(Item)
    /\ IF ~writer.open
       THEN writer' = Dead /\ UNCHANGED disk
       ELSE \/ writer' = Loop /\ disk' \in {disk, disk \cup {Item}}
            \/ writer' = [Loop EXCEPT !.open = FALSE] /\ disk' = disk \cup {Item}
    /\ UNCHANGED <<queue, important, closed, caller>>

(* The caller is told only when it still waits for this very command, not   *)
(* for one it asked after it had given this one up.                         *)
FaultyCompleted ==
    LET t == Item.from IN IF At(t, "wait") THEN Tell(t, TRUE) ELSE caller
Completed ==
    LET t == Item.from
    IN  IF At(t, "wait") /\ caller[t].next = Item.number THEN Tell(t, TRUE) ELSE caller

HandleCommand ==
    /\ writer.at = "handle" /\ Item.action \in Commands
    /\ \/ /\ ~writer.open \/ Item.action # "flush"     \* a closed file, or an OSError
          /\ writer' = Dead /\ UNCHANGED caller
          /\ disk' = IF Item.action = "clear" /\ writer.open THEN {} ELSE disk
       \/ /\ writer.open
          /\ writer' = IF Item.action = "close" THEN Dead ELSE Loop
          /\ disk' = IF Item.action = "clear" THEN {} ELSE disk
          /\ caller' = Completed
    /\ UNCHANGED <<queue, important, closed>>

-----------------------------------------------------------------------------
Next ==
    \/ \E t \in Threads :
         \/ Emit(t) \/ KeepImportant(t) \/ PutCommand(t) \/ GiveUp(t) \/ Continue(t)
         \/ \E action \in Commands : Ask(t, action)
    \/ PopImportant \/ Get \/ WriteEvent \/ HandleCommand

Spec == Init /\ [][Next]_vars

-----------------------------------------------------------------------------
InQueue(t) == {item \in ToSet(queue) : IsEvent(item) /\ item.from = t}
InDeque(t) == {item \in ToSet(important) : item.from = t}
Done(t) == At(t, "told") /\ caller[t].told

Events == [from : Threads, number : Nat, action : {"event"}]
Items == [from : Threads, number : Nat, action : Commands \cup {"event"}]
Callers == [at : {"free", "full", "put", "wait", "told"}, next : Nat \ {0},
            asked : Commands \cup {"none"}, told : BOOLEAN]
Writers == [at : {"loop", "get", "handle", "dead"}, item : Items \cup {None}, open : BOOLEAN]

(* The queue and the deque keep their bounds, and what is in them, in the   *)
(* files and in the writer's hand its type (jsonl.py).                      *)
TypeOK ==
    /\ queue \in Seq(Items) /\ Len(queue) <= Capacity
    /\ important \in Seq(Events) /\ Len(important) <= Important
    /\ writer \in Writers /\ (writer.at = "handle" => Item # None)
    /\ disk \subseteq Items /\ closed \in BOOLEAN
    /\ caller \in [Threads -> Callers] /\ \A t \in Threads : At(t, "put") => caller[t].asked \in Commands

(* Whoever is told that a flush, a clear or a close is done has none of its *)
(* earlier events in the queue any more, whatever commands it gave up before*)
(* (jsonl.py _request_control, _run).                                       *)
DoneMeansDone == \A t \in Threads : Done(t) => InQueue(t) = {}

(* What keeps it: of one thread, what was put later has the larger number,  *)
(* in the queue and behind the command in the writer's hand, and none has   *)
(* a larger one than the thread has come to.                                *)
Numbered(item) ==
    \/ item.number < caller[item.from].next
    \/ /\ item.number = caller[item.from].next /\ ~IsEvent(item)
       /\ caller[item.from].at \in {"wait", "told"}
Before(item, later) == item.from = later.from => item.number < later.number

QueueInv ==
    \A j \in 1..Len(queue) :
        Numbered(queue[j]) /\ \A i \in 1..Len(queue) : i < j => Before(queue[i], queue[j])
HandInv ==
    writer.at = "handle" /\ ~IsEvent(Item) =>
        Numbered(Item) /\ \A j \in 1..Len(queue) : Before(Item, queue[j])

PartInv == TypeOK /\ DoneMeansDone /\ QueueInv /\ HandInv

(* Does not hold: an event that found the queue full may come to the deque  *)
(* after the writer has emptied the queue and looked at the deque; it waits *)
(* there until something else is queued, and a flush does not cover it.     *)
DoneCoversImportant == \A t \in Threads : Done(t) => InDeque(t) = {}

(* Does not hold: the writer dies when a file cannot be opened after a      *)
(* rotation, and everything emitted later stays in memory.                  *)
WriterSurvives == ~closed => Alive

(* Does not hold: an event another thread emitted while the log was being   *)
(* closed is never written.                                                 *)
ClosedLogIsWritten == closed /\ ~Alive => \A t \in Threads : InQueue(t) = {}
=============================================================================
