----------------------------- MODULE ImageTasks -----------------------------
(***************************************************************************)
(* Image tasks (services/image_task_service.py) and the file they survive   *)
(* in (services/json_file.py).  A client submits a task under an id of its  *)
(* own and polls; a thread runs the task; every change is saved under the   *)
(* lock, first to the file and then to its backup.  Where the file cannot   *)
(* be replaced it is written in place, and what cuts that write short       *)
(* leaves it torn.  A crash loses the memory and the threads.               *)
(*                                                                         *)
(* A task that ended in an error failed for good, or it timed out and can   *)
(* be polled again.  Its prompt, progress and times are left out.           *)
(***************************************************************************)
EXTENDS Naturals

CONSTANTS
    Tasks,      \* task ids, each with its owner
    Threads,    \* daemon threads: one for every task is enough
    Torn,       \* a file whose write was cut short
    Replaces,   \* os.replace works on the file
    MaxCrashes  \* bound on the crashes of the process

Unfinished == {"queued", "running"}
Terminal   == {"success", "failed", "timeout"}
Statuses   == {"none"} \cup Unfinished \cup Terminal

ASSUME TasksAssumption ==
    /\ "none" \notin Tasks
    /\ Torn \notin [Tasks -> Statuses]
    /\ Replaces \in BOOLEAN /\ MaxCrashes \in Nat

VARIABLES
    up,        \* the process runs
    task,      \* _tasks: the status of a task, "none" for no task
    conv,      \* the tasks with a conversation_id
    old,       \* finished tasks past their retention
    main, bak, \* the file and its backup
    thread,    \* where a thread is, and with which task
    fault,     \* the one write that went wrong
    crashes,
    ran,       \* history: calls of the handler since its retention was over
    answered   \* history: the tasks a client has seen succeed since then

disk == <<main, bak, fault>>
vars == <<up, task, conv, old, disk, thread, crashes, ran, answered>>

NoTasks == [t \in Tasks |-> "none"]
NoThreads == [h \in Threads |-> [at |-> "none", task |-> "none"]]

TypeOK ==
    /\ up \in BOOLEAN
    /\ task \in [Tasks -> Statuses]
    /\ conv \subseteq Tasks /\ old \subseteq Tasks /\ answered \subseteq Tasks
    /\ main \in [Tasks -> Statuses] \cup {Torn}
    /\ bak \in [Tasks -> Statuses] \cup {Torn}
    /\ thread \in [Threads -> [at : {"none", "start", "begin", "work", "poll", "lost", "late"},
                               task : Tasks \cup {"none"}]]
    /\ fault \in {"none", "raised", "backup", "torn"}
    /\ crashes \in 0..MaxCrashes
    /\ ran \in [Tasks -> Nat]

Init ==
    /\ up = TRUE
    /\ task = NoTasks /\ conv = {} /\ old = {}
    /\ main = NoTasks /\ bak = NoTasks /\ fault = "none"
    /\ thread = NoThreads
    /\ crashes = 0
    /\ ran = [t \in Tasks |-> 0] /\ answered = {}

-----------------------------------------------------------------------------
(* The file *)

Fault(kind) == fault = "none" /\ fault' = kind

\* Mutant: there is no backup.
BackedNever(new) == UNCHANGED <<bak, fault>>

\* The backup is written after the file; what goes wrong is a warning.
Backed(new) ==
    \/ bak' = new /\ UNCHANGED fault
    \/ Fault("backup") /\ bak' \in {bak} \cup (IF Replaces THEN {} ELSE {Torn})

\* write_json_file ends without an error.
Saved(new) == main' = new /\ Backed(new)

\* The write of the file raises: no space, or it cannot be written.
SaveRaises ==
    /\ Fault("raised")
    /\ main' \in {main} \cup (IF Replaces THEN {} ELSE {Torn})
    /\ UNCHANGED bak

\* The process dies in write_json_file.
SaveCrashes(new) ==
    \/ main' = new /\ UNCHANGED <<bak, fault>>
    \/ ~Replaces /\ Fault("torn") /\ main' = Torn /\ UNCHANGED bak
    \/ ~Replaces /\ Fault("torn") /\ main' = new /\ bak' = Torn

\* The memory and the threads are gone.
Down ==
    /\ crashes < MaxCrashes
    /\ crashes' = crashes + 1
    /\ up' = FALSE
    /\ task' = NoTasks /\ conv' = {} /\ thread' = NoThreads
    /\ UNCHANGED <<old, ran, answered>>

\* A handler changes the tasks to new and saves them; its thread goes on as
\* after says, or as raised says when the save raises.
Save(new, after, raised) ==
    \/ Saved(new) /\ task' = new /\ thread' = after /\ UNCHANGED <<up, crashes>>
    \/ SaveRaises /\ task' = new /\ thread' = raised /\ UNCHANGED <<up, crashes>>

\* Mutant: the backup is believed first.
ReadBackup == IF bak # Torn THEN bak ELSE IF main # Torn THEN main ELSE NoTasks

\* read_json_file
Read ==
    IF main # Torn THEN main ELSE IF bak # Torn THEN bak ELSE NoTasks

-----------------------------------------------------------------------------
(* Requests *)

\* _cleanup_locked
Cleaned == [t \in Tasks |-> IF t \in old THEN "none" ELSE task[t]]

\* The cleaned tasks are gone.
Forget ==
    /\ old' = {}
    /\ conv' = conv \ old
    /\ UNCHANGED ran

\* Mutant: the cleanup is not saved.
KeepUnsaved == task' = Cleaned /\ UNCHANGED <<disk, thread, up, crashes>>

\* A cleanup that removed something is saved.
Keep ==
    IF old = {}
    THEN UNCHANGED <<task, disk, thread, up, crashes>>
    ELSE Save(Cleaned, thread, thread)

\* list_tasks
List ==
    /\ up
    /\ Keep
    /\ Forget
    /\ answered' = answered \cup {t \in Tasks : Cleaned[t] = "success"}

\* A thread that does nothing: any will do.
Idle(h) == thread[h].at = "none"

Runs(h, label, t) == [thread EXCEPT ![h] = [at |-> label, task |-> t]]

\* _submit of an id that is known
SubmitKnown(t) ==
    /\ up
    /\ Cleaned[t] # "none"
    /\ Keep
    /\ Forget
    /\ UNCHANGED answered

\* _submit of a new id: the thread starts when the task is saved.
SubmitNew(t) ==
    /\ up
    /\ Cleaned[t] = "none"
    /\ \E h \in Threads : /\ Idle(h)
                          /\ Save([Cleaned EXCEPT ![t] = "queued"], Runs(h, "start", t), thread)
    /\ Forget
    /\ UNCHANGED answered

\* Mutant: what is being polled may be polled again.
ResumableTwice(t) == t \in conv

\* What resume_poll asks of a task
Resumable(t) == task[t] = "timeout" /\ t \in conv

\* resume_poll
Resume(t) ==
    /\ up
    /\ Resumable(t)
    /\ \E h \in Threads : /\ Idle(h)
                          /\ Save([task EXCEPT ![t] = "running"], Runs(h, "poll", t), thread)
    /\ old' = old \ {t}
    /\ UNCHANGED <<conv, ran, answered>>

\* The retention of a finished task passes.
Expire(t) ==
    /\ up /\ task[t] \in Terminal /\ t \notin old
    /\ \A h \in Threads : thread[h].task # t
    /\ old' = old \cup {t}
    /\ ran' = [ran EXCEPT ![t] = 0]
    /\ answered' = answered \ {t}
    /\ UNCHANGED <<up, task, conv, disk, thread, crashes>>

-----------------------------------------------------------------------------
(* Threads *)

Ends(h) == [thread EXCEPT ![h] = [at |-> "none", task |-> "none"]]
Goes(h, label) == [thread EXCEPT ![h].at = label]

\* _update_task of the thread's task; it is gone if a cleanup took it.
Update(h, status, after, raised) ==
    LET t == thread[h].task IN
      IF task[t] = "none"
      THEN thread' = after /\ UNCHANGED <<up, task, disk, crashes>>
      ELSE Save([task EXCEPT ![t] = status], after, raised)

\* _run_task: outside the try, so that a save that raises ends the thread ...
RunStarts(h) ==
    /\ thread[h].at = "start"
    /\ Update(h, "running", Goes(h, "begin"), Ends(h))
    /\ UNCHANGED <<conv, old, ran, answered>>

\* ... also here, where a Grok task saves its first progress.
HandlerCalled(h) ==
    /\ thread[h].at = "begin"
    /\ \/ /\ ran' = [ran EXCEPT ![thread[h].task] = @ + 1]
          /\ thread' = Goes(h, "work")
          /\ UNCHANGED disk \/ Saved(task)
       \/ SaveRaises /\ thread' = Ends(h) /\ UNCHANGED ran
    /\ UNCHANGED <<up, task, crashes, conv, old, answered>>

\* progress_callback: some of its callers swallow what it raises.
Progress(h) ==
    /\ thread[h].at = "work"
    /\ \/ SaveRaises /\ thread' \in {thread, Goes(h, "lost")}
       \/ Saved(task) /\ UNCHANGED thread
    /\ UNCHANGED <<up, task, crashes, conv, old, ran, answered>>

\* The handler, or the further poll, comes back with images; the save of the
\* success is inside the try.
Succeed(h) ==
    /\ thread[h].at \in {"work", "poll"}
    /\ Update(h, "success", Ends(h), Goes(h, "lost"))
    /\ UNCHANGED <<conv, old, ran, answered>>

\* It raises, for good or with a timeout.
Fail(h) ==
    /\ thread[h].at \in {"work", "poll"}
    /\ thread' \in {Goes(h, "lost"), Goes(h, "late")}
    /\ UNCHANGED <<up, task, conv, old, disk, crashes, ran, answered>>

\* The except clause.  A timeout carries the conversation.
Caught(h) ==
    /\ thread[h].at \in {"lost", "late"}
    /\ Update(h, IF thread[h].at = "late" THEN "timeout" ELSE "failed", Ends(h), Ends(h))
    /\ conv' = IF thread[h].at = "late" THEN conv \cup {thread[h].task} ELSE conv
    /\ UNCHANGED <<old, ran, answered>>

-----------------------------------------------------------------------------
(* Crashes and restarts *)

\* The process dies between two saves, or in the middle of one of any of the
\* changes above.
Crash ==
    /\ up
    /\ Down
    /\ UNCHANGED disk

CrashSaving ==
    /\ up
    /\ Down
    /\ \/ \E t \in Tasks, s \in Statuses \ {"none"} :
            /\ \/ s = "queued" /\ Cleaned[t] = "none"
               \/ s = "running" /\ Resumable(t)
               \/ \E h \in Threads :
                    /\ thread[h].task = t /\ task[t] # "none"
                    /\ \/ s = "running" /\ thread[h].at \in {"start", "begin", "work"}
                       \/ s = "success" /\ thread[h].at \in {"work", "poll"}
                       \/ s = "failed"  /\ thread[h].at = "lost"
                       \/ s = "timeout" /\ thread[h].at = "late"
            /\ SaveCrashes([(IF s = "queued" THEN Cleaned ELSE task) EXCEPT ![t] = s])
       \/ old # {} /\ SaveCrashes(Cleaned)

\* Mutant: what was running is left as it was.
RecoveredNot(f) == f

\* _recover_unfinished_locked
Recovered(f) == [t \in Tasks |-> IF f[t] \in Unfinished THEN "failed" ELSE f[t]]

\* The service is made anew: load, recover, clean up, and save if there was
\* something to change.  _load_locked does not read the conversation_id.
Start ==
    /\ ~up
    /\ LET loaded == Read
           kept == {t \in old : loaded[t] \in Terminal}
           new == [t \in Tasks |-> IF t \in kept THEN "none" ELSE Recovered(loaded)[t]]
       IN
         /\ \/ /\ new = loaded /\ UNCHANGED disk
               /\ up' = TRUE /\ task' = new
            \/ /\ new # loaded /\ Saved(new)
               /\ up' = TRUE /\ task' = new
            \/ /\ new # loaded /\ SaveRaises
               /\ UNCHANGED <<up, task>>
            \/ /\ new # loaded /\ SaveCrashes(new)
               /\ UNCHANGED <<up, task>>
         /\ IF up'
            THEN old' = {}
            ELSE UNCHANGED old
    /\ UNCHANGED <<conv, thread, crashes, ran, answered>>

-----------------------------------------------------------------------------
Thread(h) == RunStarts(h) \/ HandlerCalled(h) \/ Caught(h)

Work(h) == Succeed(h) \/ Fail(h)

Request(t) == SubmitKnown(t) \/ SubmitNew(t) \/ Resume(t)

Next ==
    \/ \E h \in Threads : Thread(h) \/ Work(h) \/ Progress(h)
    \/ \E t \in Tasks : Request(t) \/ Expire(t)
    \/ List \/ Crash \/ CrashSaving \/ Start

Spec == Init /\ [][Next]_vars

\* Threads go on, handlers and polls end by their timeouts, however much
\* progress they report, and the container is restarted (docker-compose.yml,
\* restart: unless-stopped).  Clients owe nothing.
Fairness ==
    /\ \A h \in Threads : WF_vars(Thread(h)) /\ WF_vars(Work(h))
    /\ WF_vars(Start)

FairSpec == Spec /\ Fairness

-----------------------------------------------------------------------------
(* Properties *)

\* One thread at most works on a task, and a task that is worked on is not
\* shown as finished or gone, unless the save of its success raised.
OneThread ==
    /\ \A g, h \in Threads :
         thread[g].at # "none" /\ thread[h].at # "none" /\ thread[g].task = thread[h].task => g = h
    /\ \A h \in Threads : thread[h].at \notin {"none", "lost"} =>
         task[thread[h].task] = IF thread[h].at = "start" THEN "queued" ELSE "running"

TasksInv == TypeOK /\ OneThread /\ \A t \in old : up => task[t] \in Terminal

\* What a client is shown is what a restart would read (every change is saved
\* before the lock is given back, a torn file has its backup), unless a save
\* raised.
WriteThrough == up /\ fault # "raised" => Read = task

\* A submission repeated by the client, or after a restart, does not run the
\* handler again; one write that goes wrong or is cut short changes nothing.
AtMostOnce == \A t \in Tasks : ran[t] <= 1

\* A success a client has seen stays a success until its retention is over,
\* over crashes too; a torn file or a save that raised can take it back.
SuccessKept ==
    up /\ fault \in {"none", "backup"} => \A t \in answered : task[t] = "success"

\* A task that is accepted ends, over crashes too, unless a save raised.
TaskEnds ==
    \A t \in Tasks :
      task[t] \in Unfinished ~> (up /\ task[t] \notin Unfinished) \/ fault = "raised"
=============================================================================
