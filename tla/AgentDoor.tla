------------------------------- MODULE AgentDoor -------------------------------
(***************************************************************************)
(* The door of the agent: messages of one scope (one user of one channel) that *)
(* are bound to its active conversation, wait for the lock of that            *)
(* conversation and are routed to the loop, to a command or to a task that    *)
(* goes on by itself; the row and the push of a task's result; the stream that *)
(* follows the row; titles (agent.py, channels/api.py, session.py).           *)
(*                                                                         *)
(* Conversation 1 is named by the scope itself, as _handle_task_stream names   *)
(* it.  The loop is two steps, its message and its answer; AgentTurn has the   *)
(* rest of it.                                                              *)
(***************************************************************************)
EXTENDS Naturals, Sequences, FiniteSets

CONSTANTS Requests, Tasks,   \* requests, and those of them that may be a task
          Nobody, MaxConvs, MaxPosts

VARIABLES active, made,   \* active_conversations; conversations in use: 1 .. made
          status, title,  \* of each conversation; "" is no title
          lock, locks,    \* _session_locks: a lock, or 0; Lock objects made
          holder,         \* of each Lock object
          req,            \* what each request is about
          log,            \* messages of each conversation: whose they are
          task,           \* what the thread of each request's task does, and its verdict
          row,            \* status in subtask_progress of each request's task
          told,           \* history: verdicts that were pushed for it
          stream,         \* what each task's stream is: none, open, lost, or the status it ended with
          refining,       \* requests whose title is being refined
          posts, owned    \* history: titles posted; conversations whose title is the user's

convVars == <<active, made, status, log>>
titleVars == <<title, refining, posts, owned>>
lockVars == <<lock, locks, holder>>
taskVars == <<task, row, told, stream>>
vars == <<convVars, titleVars, lockVars, req, taskVars>>

Convs == 1 .. MaxConvs
Locks == 1 .. 2 * MaxConvs
Kinds == {"say", "goal", "new", "stop", "task", "other"}
Verdicts == {"succeeded", "partial", "failed"}
NoTask == [pc |-> "none", verdict |-> "", slow |-> FALSE]

Init ==
  /\ active = 1 /\ made = 1 /\ status = [c \in Convs |-> "chatting"]
  /\ log = [c \in Convs |-> <<>>] /\ title = [c \in Convs |-> ""]
  /\ lock = [c \in Convs |-> 0] /\ locks = 0 /\ holder = [n \in Locks |-> Nobody]
  /\ req = [r \in Requests |-> [pc |-> "new", kind |-> "say", conv |-> 0, lock |-> 0]]
  /\ task = [r \in Requests |-> NoTask] /\ row = [r \in Requests |-> "none"]
  /\ told = [r \in Requests |-> <<>>] /\ stream = [r \in Requests |-> "none"]
  /\ refining = {} /\ posts = 0 /\ owned = {}

At(r, pc) == req[r].pc = pc
To(r, pc) == req' = [req EXCEPT ![r].pc = pc]

(* handle: the scope's active conversation, as it is before the lock.         *)
Bind(r) ==
  /\ At(r, "new")
  /\ \E k \in Kinds :
       /\ k = "task" => r \in Tasks
       /\ req' = [req EXCEPT ![r] = [@ EXCEPT !.pc = "bound", !.kind = k, !.conv = active]]
  /\ UNCHANGED <<convVars, titleVars, lockVars, taskVars>>

(* _get_session_lock: a look without the guard, and if there was no lock a     *)
(* second one with it.                                                      *)
Peek(r) ==
  /\ At(r, "bound")
  /\ LET n == lock[req[r].conv] IN
     req' = [req EXCEPT ![r] = [@ EXCEPT !.lock = n, !.pc = IF n = 0 THEN "guard" ELSE "wait"]]
  /\ UNCHANGED <<convVars, titleVars, lockVars, taskVars>>
NewLock(r) ==
  /\ locks' = locks + 1 /\ lock' = [lock EXCEPT ![req[r].conv] = locks + 1]
  /\ req' = [req EXCEPT ![r] = [@ EXCEPT !.lock = locks + 1, !.pc = "wait"]]
Guard(r) ==
  /\ At(r, "guard")
  /\ IF lock[req[r].conv] = 0 THEN NewLock(r)
     ELSE /\ req' = [req EXCEPT ![r] = [@ EXCEPT !.lock = lock[req[r].conv], !.pc = "wait"]]
          /\ UNCHANGED <<lock, locks>>
  /\ UNCHANGED <<convVars, titleVars, holder, taskVars>>

(* _handle_locked: a model that is not there, or a command that changes        *)
(* nothing here, is answered at once; a conversation without a title gets one,  *)
(* and a better one later.                                                   *)
Enter(r) ==
  /\ At(r, "wait") /\ holder[req[r].lock] = Nobody
  /\ holder' = [holder EXCEPT ![req[r].lock] = r]
  /\ LET c == req[r].conv
         titled == req[r].kind \in {"say", "task"} /\ title[c] = ""
     IN  /\ title' = IF titled THEN [title EXCEPT ![c] = "first"] ELSE title
         /\ refining' = IF titled THEN refining \cup {r} ELSE refining
  /\ To(r, IF req[r].kind = "other" THEN "leave" ELSE "route")
  /\ UNCHANGED <<convVars, posts, owned, lock, locks, taskVars>>

(* _run_ai_loop; a goal is set first.                                       *)
Ask(r) ==
  /\ At(r, "route") /\ req[r].kind \in {"say", "goal"} /\ To(r, "loop")
  /\ log' = [log EXCEPT ![req[r].conv] = Append(@, r)]
  /\ status' = IF req[r].kind = "goal" THEN [status EXCEPT ![req[r].conv] = "working"] ELSE status
  /\ UNCHANGED <<active, made, titleVars, lockVars, taskVars>>
(* An answer, or an error that is told, ends the goal; an exception does not.  *)
Answer(r) ==
  /\ At(r, "loop") /\ To(r, "leave")
  /\ log' = [log EXCEPT ![req[r].conv] = Append(@, r)]
  /\ LET c == req[r].conv IN
     \/ status[c] = "working" /\ status' = [status EXCEPT ![c] = "chatting"]
     \/ status[c] # "working" /\ UNCHANGED status
     \/ status' = [status EXCEPT ![c] = "chatting"]
  /\ UNCHANGED <<active, made, titleVars, lockVars, taskVars>>
Raises(r) ==
  /\ At(r, "loop") /\ To(r, "leave")
  /\ UNCHANGED <<convVars, titleVars, lockVars, taskVars>>

(* _handle_builtin: /new and /stop.                                        *)
New(r) ==
  /\ At(r, "route") /\ req[r].kind = "new" /\ made < MaxConvs /\ To(r, "leave")
  /\ made' = made + 1 /\ active' = made + 1
  /\ status' = [status EXCEPT ![req[r].conv] = "archived"]
  /\ UNCHANGED <<log, titleVars, lockVars, taskVars>>
StopIt(r) ==
  /\ At(r, "route") /\ req[r].kind = "stop" /\ To(r, "leave")
  /\ status' = IF status[req[r].conv] = "working" THEN [status EXCEPT ![req[r].conv] = "chatting"]
               ELSE status
  /\ UNCHANGED <<active, made, log, titleVars, lockVars, taskVars>>

(* _run_orchestrated: a thread of its own, and a receipt.                    *)
Accept(r) ==
  /\ At(r, "route") /\ req[r].kind = "task" /\ To(r, "leave")
  /\ task' = [task EXCEPT ![r].pc = "run"]
  /\ UNCHANGED <<convVars, titleVars, lockVars, row, told, stream>>

Leave(r) ==
  /\ At(r, "leave") /\ To(r, "answered")
  /\ holder' = [holder EXCEPT ![req[r].lock] = Nobody]
  /\ UNCHANGED <<convVars, titleVars, lock, locks, taskVars>>

(* _handle_chat_or_task: the client gets the text, or the name of its task.    *)
Reply(r) ==
  /\ At(r, "answered") /\ To(r, "replied")
  /\ UNCHANGED <<convVars, titleVars, lockVars, taskVars>>

-------------------------------------------------------------------------------
(* The thread of a task, _bg_run.  Its row is written by the orchestrator,     *)
(* which may leave workers behind that go on to log; and then with the verdict. *)

Untouched(r) == UNCHANGED <<convVars, titleVars, lockVars, req, told, stream>>
Progress(r) ==
  /\ task[r].pc = "run" /\ row' = [row EXCEPT ![r] = "delivering"]
  /\ UNCHANGED task /\ Untouched(r)
Execute(r) ==
  /\ task[r].pc = "run"
  /\ \E v \in Verdicts, s \in BOOLEAN :
       /\ s => v # "succeeded" /\ row[r] = "delivering"
       /\ task' = [task EXCEPT ![r] = [pc |-> "push", verdict |-> v, slow |-> s]]
  /\ UNCHANGED row /\ Untouched(r)
(* An exception, in the orchestrator or before anything was pushed.          *)
Breaks(r) ==
  /\ task[r].pc \in {"run", "push"}
  /\ task' = [task EXCEPT ![r].pc = "excuse", ![r].verdict = "failed"]
  /\ \/ row' = [row EXCEPT ![r] = "failed"]
     \/ UNCHANGED row
  /\ Untouched(r)
(* _push_result: a channel takes it, or its error is printed.                 *)
Push(r) ==
  /\ task[r].pc \in {"push", "excuse"}
  /\ told' = [told EXCEPT ![r] = Append(@, task[r].verdict)]
  /\ task' = [task EXCEPT ![r].pc = IF @ = "push" THEN "save" ELSE "over"]
  /\ UNCHANGED <<convVars, titleVars, lockVars, req, row, stream>>
PushFails(r) ==
  /\ task[r].pc \in {"push", "excuse"}
  /\ task' = [task EXCEPT ![r].pc = IF @ = "push" THEN "save" ELSE "over"]
  /\ UNCHANGED row /\ Untouched(r)
(* The verdict is saved, or that fails and is printed.                        *)
Save(r) ==
  /\ task[r].pc = "save" /\ task' = [task EXCEPT ![r].pc = "over"]
  /\ \/ row' = [row EXCEPT ![r] = task[r].verdict]
     \/ UNCHANGED row
  /\ Untouched(r)
(* A worker that was given up writes the graph again, without the verdict.    *)
LateLog(r) ==
  /\ task[r].slow /\ row' = [row EXCEPT ![r] = "done"]
  /\ UNCHANGED task /\ Untouched(r)

(* _handle_task_stream: the client names the conversation that it knows.       *)
Final == {"done"} \cup Verdicts
Open(r) ==
  /\ At(r, "replied") /\ task[r].pc # "none" /\ stream[r] = "none"
  /\ \E c \in {1, req[r].conv} :
       stream' = [stream EXCEPT ![r] = IF c = req[r].conv THEN "open" ELSE "lost"]
  /\ UNCHANGED <<convVars, titleVars, lockVars, req, task, row, told>>
Poll(r) ==
  /\ stream[r] = "open" /\ row[r] \in Final
  /\ stream' = [stream EXCEPT ![r] = row[r]]
  /\ UNCHANGED <<convVars, titleVars, lockVars, req, task, row, told>>

-------------------------------------------------------------------------------
(* _async_refine_title: a model's title, or none.                            *)
Refine(r) ==
  /\ r \in refining /\ refining' = refining \ {r}
  /\ \/ title' = [title EXCEPT ![req[r].conv] = "refined"]
     \/ UNCHANGED title
  /\ UNCHANGED <<convVars, posts, owned, lockVars, req, taskVars>>
(* _handle_post_session_title.                                             *)
PostTitle(c) ==
  /\ posts < MaxPosts /\ posts' = posts + 1 /\ c <= made
  /\ title' = [title EXCEPT ![c] = "own"]
  /\ owned' = IF \E r \in refining : req[r].conv = c THEN owned ELSE owned \cup {c}
  /\ UNCHANGED <<convVars, refining, lockVars, req, taskVars>>

Next ==
  \/ \E r \in Requests :
       \/ Bind(r) \/ Peek(r) \/ Guard(r) \/ Enter(r) \/ Ask(r) \/ Answer(r) \/ Raises(r)
       \/ New(r) \/ StopIt(r) \/ Accept(r) \/ Leave(r) \/ Reply(r)
       \/ Progress(r) \/ Execute(r) \/ Breaks(r) \/ Push(r) \/ PushFails(r) \/ Save(r)
       \/ LateLog(r) \/ Open(r) \/ Poll(r) \/ Refine(r)
  \/ \E c \in Convs : PostTitle(c)
Spec == Init /\ [][Next]_vars

-------------------------------------------------------------------------------
(* Messages of one conversation are answered one after the other, whoever else *)
(* makes its lock at the same time; new messages never come to a conversation  *)
(* that was closed.  A task is told once at most, as its row and its stream     *)
(* say, unless a write was refused or a worker was left behind; and a title the *)
(* user gave stays, unless one was being made.                               *)
Saved(r) == task[r].pc = "over" /\ row[r] \in Verdicts
DoorKept ==
  /\ \A c \in Convs : \A i \in 1 .. Len(log[c]) - 1 :
       log[c][i] # log[c][i + 1] => \A j \in i + 2 .. Len(log[c]) : log[c][j] # log[c][i]
  /\ status[active] # "archived"
  /\ \A r \in Requests :
       /\ Len(told[r]) <= 1
       /\ Saved(r) /\ told[r] # <<>> => told[r] = <<row[r]>>
       /\ stream[r] \in Verdicts => stream[r] = task[r].verdict
  /\ \A c \in owned : title[c] = "own"
-------------------------------------------------------------------------------
(* What keeps it so.  A lock is that of one conversation, and whoever is inside  *)
(* holds the lock of his; of a request the log has nothing before it asks, its   *)
(* question at the end until it is answered, and then what follows it at once;   *)
(* a task's verdict, told or saved, does not change any more.                 *)
Inside == {"route", "loop", "leave"}
Gone == {"leave", "answered", "replied"}
Places == {"new", "bound", "guard", "wait"} \cup Inside \cup Gone
ConvsTypeOK ==
  /\ made \in Convs /\ active \in 1 .. made
  /\ status \in [Convs -> {"chatting", "working", "archived"}] /\ log \in [Convs -> Seq(Requests)]
LocksTypeOK ==
  /\ lock \in [Convs -> 0 .. locks] /\ locks = Cardinality({c \in Convs : lock[c] # 0})
  /\ holder \in [Locks -> Requests \cup {Nobody}]
ReqTypeOK == req \in [Requests -> [pc : Places, kind : Kinds, conv : 0 .. made, lock : 0 .. locks]]
TasksTypeOK ==
  /\ task \in [Requests -> [pc : {"none", "run", "push", "excuse", "save", "over"},
                            verdict : Verdicts \cup {""}, slow : BOOLEAN]]
  /\ row \in [Requests -> Verdicts \cup {"none", "delivering", "done"}]
  /\ told \in [Requests -> Seq(Verdicts)]
  /\ stream \in [Requests -> Verdicts \cup {"none", "open", "lost", "done"}]
TitlesTypeOK ==
  /\ title \in [Convs -> {"", "first", "refined", "own"}]
  /\ refining \subseteq Requests /\ owned \subseteq Convs
DoorTypeOK == ConvsTypeOK /\ LocksTypeOK /\ ReqTypeOK /\ TasksTypeOK /\ TitlesTypeOK
LocksAgree ==
  /\ \A c, d \in Convs : lock[c] # 0 /\ lock[c] = lock[d] => c = d
  /\ \A r \in Requests :
       /\ ~ At(r, "new") => req[r].conv # 0
       /\ req[r].pc \in Inside \cup {"wait"} => req[r].lock # 0 /\ req[r].lock = lock[req[r].conv]
       /\ req[r].pc \in Inside => holder[req[r].lock] = r
LogOf(r) == log[req[r].conv]
LogsAgree ==
  /\ \A c \in Convs : \A i, j \in 1 .. Len(log[c]) : i < j /\ log[c][i] = log[c][j] => j = i + 1
  /\ \A c \in Convs : \A i \in 1 .. Len(log[c]) :
       req[log[c][i]].conv = c /\ req[log[c][i]].pc \in Gone \cup {"loop"}
  /\ \A r \in Requests : At(r, "loop") =>
       \A i \in 1 .. Len(LogOf(r)) : LogOf(r)[i] = r <=> i = Len(LogOf(r))
OpenConvs == status[active] # "archived" /\ \A c \in Convs : c > made => status[c] = "chatting"
Before(r) == task[r].pc \in {"none", "run", "push"}
TasksAgree ==
  \A r \in Requests :
    /\ task[r].pc # "none" => req[r].pc \in Gone
    /\ told[r] = <<>> \/ (task[r].pc \in {"save", "over"} /\ told[r] = <<task[r].verdict>>)
    /\ row[r] \in Verdicts \/ stream[r] \in Verdicts => ~ Before(r)
    /\ row[r] \in Verdicts => row[r] = task[r].verdict
    /\ stream[r] \in Verdicts => stream[r] = task[r].verdict
    /\ task[r].pc \notin {"none", "run"} => task[r].verdict \in Verdicts
TitlesAgree ==
  /\ \A c \in owned : title[c] = "own"
  /\ \A r \in refining : ~ At(r, "new") /\ req[r].conv \notin owned
DoorInv == DoorTypeOK /\ LocksAgree /\ LogsAgree /\ OpenConvs /\ TasksAgree /\ TitlesAgree
===============================================================================
