-------------------------- MODULE ImageTasks_proofs --------------------------
(***************************************************************************)
(* Proofs about ImageTasks: one thread works on a task, what is shown is    *)
(* what is stored, and no submission runs the handler twice, however saves  *)
(* and crashes fall, while at most one write goes wrong.                    *)
(***************************************************************************)
EXTENDS ImageTasks, TLAPS

\* A task is worked on.
Active(t) == \E h \in Threads : thread[h].at # "none" /\ thread[h].task = t

\* A task that must not be forgotten: its handler has been or will be called.
Held(t) == ran[t] > 0 \/ Active(t)

\* Without a fault both copies are whole, and one of them always is.
Copies ==
    /\ fault = "none" => main # Torn /\ bak # Torn
    /\ main = Torn => bak # Torn

\* Such a task is in the memory and in what a restart reads, and as long as a
\* write may still go wrong in the backup too.
Kept ==
    \A t \in Tasks : Held(t) =>
        /\ up => task[t] # "none"
        /\ Read[t] # "none"
        /\ fault = "none" => bak[t] # "none"

\* The handler of a task is called once until its retention is over.
Once ==
    /\ AtMostOnce
    /\ \A t \in old : ran[t] = 0 /\ ~Active(t)
    /\ \A h \in Threads : thread[h].at \in {"start", "begin"} => ran[thread[h].task] = 0

\* Threads run in a process that is up, and one whose save of a success raised
\* may still show the success.
Threading ==
    \A h \in Threads :
        /\ thread[h].at # "none" => up /\ thread[h].task \in Tasks
        /\ thread[h].at = "lost" => task[thread[h].task] \in {"running", "success"}

Inv == TasksInv /\ Threading /\ WriteThrough /\ Copies /\ Kept /\ Once

Types == [Tasks -> Statuses] \cup {Torn}

-----------------------------------------------------------------------------
(* The file *)

\* A save that ends leaves the new tasks in the file, and in the backup while
\* nothing has gone wrong.
LEMMA SavedHolds ==
    ASSUME TypeOK, NEW new \in [Tasks -> Statuses], Saved(new)
    PROVE  /\ Read' = new /\ Copies' /\ (fault' = "none" => bak' = new)
           /\ main' \in Types /\ bak' \in Types
           /\ fault' \in {"none", "raised", "backup", "torn"}
           /\ (fault' = "none" => fault = "none")
  BY TasksAssumption DEF Saved, Backed, Fault, Read, Copies, Types, TypeOK

\* A save that raises leaves the file as it was, or torn with a good backup.
LEMMA RaisedHolds ==
    ASSUME TypeOK, Copies, SaveRaises
    PROVE  /\ fault = "none" /\ fault' = "raised" /\ Copies'
           /\ main' \in Types /\ bak' = bak /\ bak' \in Types
           /\ Read' \in {Read, bak}
  BY DEF SaveRaises, Fault, Read, Copies, Types, TypeOK

\* So does one that is cut short, and it may also leave the new tasks.
LEMMA CrashedHolds ==
    ASSUME TypeOK, Copies, NEW new \in [Tasks -> Statuses], SaveCrashes(new)
    PROVE  /\ Copies' /\ main' \in Types /\ bak' \in Types
           /\ fault' \in {"none", "raised", "backup", "torn"}
           /\ Read' = new \/ (fault = "none" /\ Read' = bak)
           /\ fault' = "none" => fault = "none" /\ bak' = bak
  BY TasksAssumption DEF SaveCrashes, Fault, Read, Copies, Types, TypeOK

-----------------------------------------------------------------------------
LEMMA InitInv == Init => Inv
  <1> SUFFICES ASSUME Init PROVE Inv
    OBVIOUS
  <1>1. NoTasks \in [Tasks -> Statuses] /\ NoTasks # Torn
    BY TasksAssumption DEF NoTasks, Statuses
  <1>2. NoThreads \in [Threads -> [at : {"none", "start", "begin", "work", "poll", "lost", "late"},
                                   task : Tasks \cup {"none"}]]
    BY DEF NoThreads
  <1>3. \A h \in Threads : thread[h].at = "none"
    BY DEF Init, NoThreads
  <1>4. \A t \in Tasks : ran[t] = 0
    BY DEF Init
  <1>5. TypeOK
    BY <1>1, <1>2, TasksAssumption DEF Init, TypeOK
  <1>6. TasksInv
    BY <1>3, <1>5 DEF Init, TasksInv, OneThread
  <1>7. WriteThrough /\ Copies
    BY <1>1 DEF Init, WriteThrough, Copies, Read
  <1> QED BY <1>3, <1>4, <1>6, <1>7 DEF Init, Inv, Threading, Kept, Once, AtMostOnce, Held, Active

Labels == {"none", "start", "begin", "work", "poll", "lost", "late"}
ThreadType == [Threads -> [at : Labels, task : Tasks \cup {"none"}]]

\* What a step does to the threads.
LEMMA ThreadSteps ==
    ASSUME thread \in ThreadType, NEW h \in Threads, NEW label \in Labels, NEW t \in Tasks
    PROVE  /\ Goes(h, label) \in ThreadType /\ Ends(h) \in ThreadType
           /\ Runs(h, label, t) \in ThreadType
           /\ Goes(h, label)[h].at = label /\ Goes(h, label)[h].task = thread[h].task
           /\ Ends(h)[h].at = "none"
           /\ Runs(h, label, t)[h].at = label /\ Runs(h, label, t)[h].task = t
           /\ \A g \in Threads : g # h => /\ Goes(h, label)[g] = thread[g]
                                          /\ Ends(h)[g] = thread[g]
                                          /\ Runs(h, label, t)[g] = thread[g]
  BY DEF ThreadType, Labels, Goes, Ends, Runs

\* A handler that saves: its thread goes on, others stay, and what must be kept
\* is among the new tasks.
LEMMA SaveMoves ==
    ASSUME Inv, up, NEW new \in [Tasks -> Statuses], NEW after, NEW raised,
           Save(new, after, raised),
           thread' \in ThreadType, conv' \subseteq Tasks, old' \subseteq Tasks,
           answered' \subseteq Tasks, ran' \in [Tasks -> Nat],
           OneThread', \A t \in old' : task'[t] \in Terminal, Threading', Once',
           \A t \in Tasks : Held(t)' => new[t] # "none",
           SaveRaises => \A t \in Tasks : Held(t)' => Held(t)
    PROVE  Inv'
  <1>1. CASE Saved(new) /\ task' = new /\ UNCHANGED <<up, crashes>>
    <2>1. /\ Read' = new /\ Copies' /\ (fault' = "none" => bak' = new)
          /\ main' \in Types /\ bak' \in Types
          /\ fault' \in {"none", "raised", "backup", "torn"}
      BY <1>1, SavedHolds DEF Inv, TasksInv
    <2>2. WriteThrough'
      BY <1>1, <2>1 DEF WriteThrough
    <2>3. Kept'
      BY <1>1, <2>1 DEF Kept
    <2>4. TypeOK'
      BY <1>1, <2>1 DEF Inv, TasksInv, TypeOK, Types, ThreadType, Labels
    <2> QED BY <1>1, <2>1, <2>2, <2>3, <2>4 DEF Inv, TasksInv
  <1>2. CASE SaveRaises /\ task' = new /\ UNCHANGED <<up, crashes>>
    <2>1. /\ fault = "none" /\ fault' = "raised" /\ Copies'
          /\ main' \in Types /\ bak' \in Types
          /\ Read' \in {Read, bak}
      BY <1>2, RaisedHolds DEF Inv, TasksInv
    <2>2. WriteThrough'
      BY <2>1 DEF WriteThrough
    <2>3. Kept'
      BY <1>2, <2>1 DEF Kept, Inv
    <2>4. TypeOK'
      BY <1>2, <2>1 DEF Inv, TasksInv, TypeOK, Types, ThreadType, Labels
    <2> QED BY <1>2, <2>1, <2>2, <2>3, <2>4 DEF Inv, TasksInv
  <1> QED BY <1>1, <1>2 DEF Save

\* The steps of a thread that update its task, from a place that is not none.
LEMMA UpdateMoves ==
    ASSUME Inv, NEW h \in Threads, NEW status \in Unfinished \cup Terminal,
           NEW label \in Labels, NEW other \in Labels,
           thread[h].at \notin {"none"},
           Update(h, status, IF label = "none" THEN Ends(h) ELSE Goes(h, label),
                             IF other = "none" THEN Ends(h) ELSE Goes(h, other)),
           label \notin {"none"} => thread[h].at = "start" /\ label = "begin" /\ status = "running",
           other \in {"none", "lost"}, other = "lost" => status = "success",
           UNCHANGED <<old, ran, answered>>, conv' \subseteq Tasks
    PROVE  Inv'
  <1> DEFINE t == thread[h].task
  <1> DEFINE new == [task EXCEPT ![t] = status]
  <1> DEFINE after == IF label = "none" THEN Ends(h) ELSE Goes(h, label)
  <1> DEFINE raised == IF other = "none" THEN Ends(h) ELSE Goes(h, other)
  <1>1. up /\ t \in Tasks /\ Active(t) /\ task[t] # "none" /\ t \notin old
    BY DEF Inv, Threading, Active, Kept, Held, Once
  <1>2. new \in [Tasks -> Statuses] /\ new[t] = status /\ \A u \in Tasks : u # t => new[u] = task[u]
    BY <1>1 DEF Inv, TasksInv, TypeOK, Statuses
  <1>3. Save(new, after, raised)
    BY <1>1 DEF Update
  <1>4. task' = new /\ thread' \in {after, raised}
    BY <1>3 DEF Save
  <1>5. thread \in ThreadType
    BY DEF Inv, TasksInv, TypeOK, ThreadType, Labels
  <1>6. /\ thread' \in ThreadType
        /\ \A g \in Threads : g # h => thread'[g] = thread[g]
        /\ thread'[h].at # "none" => thread'[h].task = t
        /\ thread'[h].at \in {"none", "lost"} \/ (thread'[h].at = "begin" /\ thread[h].at = "start" /\ status = "running")
    BY <1>1, <1>4, <1>5, ThreadSteps
  <1>7. \A u \in Tasks : Active(u)' => Active(u)
    BY <1>6 DEF Active
  <1>8. \A g \in Threads : thread[g].at # "none" /\ g # h => thread[g].task # t
    BY DEF Inv, TasksInv, OneThread
  <1>9. OneThread'
    <2>1. \A g, k \in Threads :
            thread'[g].at # "none" /\ thread'[k].at # "none" /\ thread'[g].task = thread'[k].task => g = k
      BY <1>6, <1>8 DEF Inv, TasksInv, OneThread
    <2>2. \A g \in Threads : thread'[g].at \notin {"none", "lost"} =>
            task'[thread'[g].task] = IF thread'[g].at = "start" THEN "queued" ELSE "running"
      <3>1. SUFFICES ASSUME NEW g \in Threads, thread'[g].at \notin {"none", "lost"}
                     PROVE  task'[thread'[g].task] = IF thread'[g].at = "start" THEN "queued" ELSE "running"
        OBVIOUS
      <3>2. CASE g = h
        BY <1>2, <1>4, <1>6, <3>1, <3>2
      <3>3. CASE g # h
        BY <1>2, <1>4, <1>6, <1>8, <3>1, <3>3 DEF Inv, TasksInv, OneThread, Threading
      <3> QED BY <3>2, <3>3
    <2> QED BY <2>1, <2>2 DEF OneThread
  <1>10. \A u \in old' : task'[u] \in Terminal
    BY <1>1, <1>2, <1>4 DEF Inv, TasksInv, TypeOK
  <1>11. up' = up
    BY <1>3 DEF Save
  <1>12. Threading'
    <2>1. thread'[h].at = "lost" => status = "success"
      BY <1>4, <1>5, <1>1, ThreadSteps
    <2>2. SUFFICES ASSUME NEW g \in Threads
                   PROVE  /\ thread'[g].at # "none" => up' /\ thread'[g].task \in Tasks
                          /\ thread'[g].at = "lost" => task'[thread'[g].task] \in {"running", "success"}
      BY DEF Threading
    <2>3. CASE g = h
      BY <1>1, <1>2, <1>4, <1>6, <1>11, <2>1, <2>3
    <2>4. CASE g # h
      BY <1>2, <1>4, <1>6, <1>8, <1>11, <2>4 DEF Inv, Threading
    <2> QED BY <2>3, <2>4
  <1>13. Once'
    <2>1. \A g \in Threads : thread'[g].at \in {"start", "begin"} => ran[thread'[g].task] = 0
      BY <1>6 DEF Inv, Once
    <2> QED BY <1>7, <2>1 DEF Inv, Once, AtMostOnce, TasksInv, TypeOK
  <1>14. \A u \in Tasks : Held(u)' => Held(u)
    BY <1>7 DEF Held
  <1>15. \A u \in Tasks : Held(u)' => new[u] # "none"
    BY <1>1, <1>2, <1>14 DEF Inv, Kept, Unfinished, Terminal
  <1>16. old' \subseteq Tasks /\ answered' \subseteq Tasks /\ ran' \in [Tasks -> Nat]
    BY DEF Inv, TasksInv, TypeOK
  <1> HIDE DEF new, after, raised
  <1> QED BY <1>1, <1>2, <1>3, <1>6, <1>9, <1>10, <1>12, <1>13, <1>14, <1>15, <1>16, SaveMoves

\* A step that leaves the tasks as they are, whether it saves them or not.
LEMMA QuietMoves ==
    ASSUME Inv, up, UNCHANGED <<up, task, crashes>>,
           UNCHANGED disk \/ Saved(task) \/ SaveRaises,
           thread' \in ThreadType, conv' \subseteq Tasks, old' \subseteq Tasks,
           answered' \subseteq Tasks, ran' \in [Tasks -> Nat],
           OneThread', \A t \in old' : task[t] \in Terminal, Threading', Once',
           \A t \in Tasks : Held(t)' => Held(t)
    PROVE  Inv'
  <1>1. task \in [Tasks -> Statuses] /\ \A t \in Tasks : Held(t)' => task[t] # "none"
    BY DEF Inv, TasksInv, TypeOK, Kept
  <1>2. CASE UNCHANGED disk
    <2>1. UNCHANGED <<main, bak, fault, Read>>
      BY <1>2 DEF disk, Read
    <2>2. TypeOK'
      BY <2>1 DEF Inv, TasksInv, TypeOK, ThreadType, Labels
    <2> QED BY <2>1, <2>2 DEF Inv, TasksInv, WriteThrough, Copies, Kept
  <1>3. CASE Saved(task) \/ SaveRaises
    <2>1. Save(task, thread', thread')
      BY <1>3 DEF Save
    <2> QED BY <1>1, <2>1, SaveMoves
  <1> QED BY <1>2, <1>3

LEMMA ThreadsMove ==
    ASSUME Inv, NEW h \in Threads, Thread(h) \/ Work(h) \/ Progress(h)
    PROVE  Inv'
  <1>0. thread \in ThreadType /\ conv \subseteq Tasks /\ old \subseteq Tasks
        /\ answered \subseteq Tasks /\ ran \in [Tasks -> Nat]
    BY DEF Inv, TasksInv, TypeOK, ThreadType, Labels
  <1>1. CASE RunStarts(h)
    <2>1. Update(h, "running", IF "begin" = "none" THEN Ends(h) ELSE Goes(h, "begin"),
                 IF "none" = "none" THEN Ends(h) ELSE Goes(h, "none"))
      BY <1>1 DEF RunStarts
    <2> QED BY <1>0, <1>1, <2>1, UpdateMoves DEF RunStarts, Unfinished, Labels
  <1>2. CASE Succeed(h)
    <2>1. Update(h, "success", IF "none" = "none" THEN Ends(h) ELSE Goes(h, "none"),
                 IF "lost" = "none" THEN Ends(h) ELSE Goes(h, "lost"))
      BY <1>2 DEF Succeed
    <2> QED BY <1>0, <1>2, <2>1, UpdateMoves DEF Succeed, Terminal, Labels
  <1>3. CASE Caught(h)
    <2>1. PICK status \in Terminal :
            Update(h, status, IF "none" = "none" THEN Ends(h) ELSE Goes(h, "none"),
                   IF "none" = "none" THEN Ends(h) ELSE Goes(h, "none"))
      BY <1>3 DEF Caught, Terminal
    <2>2. thread[h].task \in Tasks
      BY <1>3 DEF Caught, Inv, Threading
    <2>3. conv' \subseteq Tasks
      BY <1>0, <1>3, <2>2 DEF Caught
    <2> QED BY <1>3, <2>1, <2>3, UpdateMoves DEF Caught, Terminal, Labels
  <1>4. CASE HandlerCalled(h) \/ Progress(h) \/ Fail(h)
    <2>1. /\ thread[h].at \in {"begin", "work", "poll"} /\ up
          /\ UNCHANGED <<up, task, crashes, conv, old, answered>>
          /\ UNCHANGED disk \/ Saved(task) \/ SaveRaises
      BY <1>4 DEF HandlerCalled, Progress, Fail, Inv, Threading
    <2>2. \/ thread' \in {Goes(h, "work"), Goes(h, "lost"), Goes(h, "late"), Ends(h)}
          \/ thread' = thread /\ thread[h].at = "work"
      BY <1>4 DEF HandlerCalled, Progress, Fail
    <2>3. /\ thread' \in ThreadType
          /\ \A g \in Threads : g # h => thread'[g] = thread[g]
          /\ thread'[h].at # "none" => thread'[h].task = thread[h].task
          /\ thread'[h].at \in {"none", "lost", "late", "work"}
      <3>1. thread[h].task \in Tasks
        BY <2>1 DEF Inv, Threading
      <3> QED BY <1>0, <2>1, <2>2, <3>1, ThreadSteps DEF Labels
    <2>4. thread[h].task \in Tasks /\ Active(thread[h].task) /\ task[thread[h].task] = "running"
      BY <2>1 DEF Inv, Threading, Active, TasksInv, OneThread
    <2>5. OneThread'
      BY <2>1, <2>3, <2>4 DEF Inv, TasksInv, OneThread
    <2>6. Threading'
      BY <2>1, <2>3, <2>4 DEF Inv, Threading
    <2>7. \A t \in Tasks : Active(t)' => Active(t)
      BY <2>3, <2>4 DEF Active
    <2>8. \/ ran' = ran
          \/ /\ thread[h].at = "begin" /\ thread'[h].at = "work"
             /\ ran' = [ran EXCEPT ![thread[h].task] = @ + 1]
      BY <1>0, <1>4, ThreadSteps DEF HandlerCalled, Progress, Fail, Labels
    <2>9. ran' \in [Tasks -> Nat] /\ \A t \in Tasks : t # thread[h].task => ran'[t] = ran[t]
      BY <1>0, <2>4, <2>8
    <2>10. \A t \in Tasks : Held(t)' => Held(t)
      BY <2>4, <2>7, <2>9 DEF Held
    <2>11. Once'
      <3>1. \A t \in Tasks : ran'[t] <= 1
        BY <1>0, <2>4, <2>8, <2>9 DEF Inv, Once, AtMostOnce
      <3>2. \A t \in old' : ran'[t] = 0 /\ ~Active(t)'
        BY <1>0, <2>1, <2>4, <2>7, <2>9 DEF Inv, Once
      <3>3. \A g \in Threads : g # h /\ thread[g].at # "none" => thread[g].task # thread[h].task
        BY <2>1 DEF Inv, TasksInv, OneThread
      <3>4. \A g \in Threads : thread'[g].at \in {"start", "begin"} => ran'[thread'[g].task] = 0
        <4>1. SUFFICES ASSUME NEW g \in Threads, thread'[g].at \in {"start", "begin"}
                       PROVE  ran'[thread'[g].task] = 0
          OBVIOUS
        <4>2. g # h /\ thread'[g] = thread[g] /\ thread[g].task \in Tasks
          BY <2>3, <4>1 DEF Inv, Threading
        <4> QED BY <2>9, <3>3, <4>1, <4>2 DEF Inv, Once
      <3> QED BY <3>1, <3>2, <3>4 DEF Once, AtMostOnce
    <2>12. \A t \in old' : task[t] \in Terminal
      BY <2>1 DEF Inv, TasksInv
    <2> QED BY <1>0, <2>1, <2>3, <2>5, <2>6, <2>9, <2>10, <2>11, <2>12, QuietMoves
  <1> QED BY <1>1, <1>2, <1>3, <1>4 DEF Thread, Work

\* Requests that clean up, and nothing else.
LEMMA KeepMoves ==
    ASSUME Inv, up, Keep, Forget, answered' \subseteq Tasks
    PROVE  Inv'
  <1>0. thread \in ThreadType /\ conv \subseteq Tasks /\ old \subseteq Tasks /\ ran \in [Tasks -> Nat]
    BY DEF Inv, TasksInv, TypeOK, ThreadType, Labels
  <1>1. thread' = thread /\ ran' = ran /\ old' = {} /\ conv' \subseteq Tasks /\ up' = up
    BY <1>0 DEF Keep, Forget, Save
  <1>2. Cleaned \in [Tasks -> Statuses]
    BY DEF Cleaned, Inv, TasksInv, TypeOK, Statuses
  <1>3. task' = Cleaned
    BY DEF Keep, Save, Cleaned, Inv, TasksInv, TypeOK
  <1>4. \A t \in Tasks : t \notin old => Cleaned[t] = task[t]
    BY DEF Cleaned
  <1>5. \A h \in Threads : thread[h].at # "none" => thread[h].task \in Tasks /\ thread[h].task \notin old
    BY DEF Inv, Threading, Once, Active
  <1>6. OneThread'
    BY <1>1, <1>3, <1>4, <1>5 DEF Inv, TasksInv, OneThread
  <1>7. Threading' /\ Once'
    BY <1>1, <1>3, <1>4, <1>5 DEF Inv, Threading, Once, AtMostOnce, Active
  <1>8. \A t \in Tasks : Held(t)' => Held(t) /\ t \notin old
    BY <1>1 DEF Held, Active, Inv, Once
  <1>9. \A t \in Tasks : Held(t)' => Cleaned[t] # "none"
    BY <1>4, <1>8 DEF Inv, Kept
  <1>10. CASE old = {}
    BY <1>0, <1>1, <1>6, <1>7, <1>8, <1>10, QuietMoves DEF Keep
  <1>11. CASE old # {}
    <2>1. Save(Cleaned, thread, thread)
      BY <1>11 DEF Keep
    <2> QED BY <1>0, <1>1, <1>2, <1>6, <1>7, <1>8, <1>9, <2>1, SaveMoves
  <1> QED BY <1>10, <1>11

\* A task begins or is taken up again, with a thread of its own.
LEMMA BeginMoves ==
    ASSUME Inv, up, NEW h \in Threads, Idle(h), NEW t \in Tasks, ~Active(t),
           NEW base \in [Tasks -> Statuses], \A u \in Tasks : u \notin old => base[u] = task[u],
           NEW status \in {"queued", "running"}, NEW label \in {"start", "poll"},
           status = "queued" <=> label = "start",
           Save([base EXCEPT ![t] = status], Runs(h, label, t), thread),
           t \notin old', old' \subseteq old, \A u \in old' : base[u] = task[u],
           label = "start" => ran[t] = 0,
           UNCHANGED <<ran, answered>>, conv' \subseteq Tasks
    PROVE  Inv'
  <1> DEFINE new == [base EXCEPT ![t] = status]
  <1>0. thread \in ThreadType /\ old \subseteq Tasks /\ answered \subseteq Tasks /\ ran \in [Tasks -> Nat]
    BY DEF Inv, TasksInv, TypeOK, ThreadType, Labels
  <1>1. new \in [Tasks -> Statuses] /\ new[t] = status /\ \A u \in Tasks : u # t => new[u] = base[u]
    BY DEF Statuses, Unfinished
  <1>2. task' = new /\ up' = up /\ thread' \in {Runs(h, label, t), thread}
    BY DEF Save
  <1>3. label \in Labels /\ label \notin {"none", "lost"}
    BY DEF Labels
  <1>4. /\ thread' \in ThreadType
        /\ \A g \in Threads : g # h => thread'[g] = thread[g]
        /\ thread'[h].at # "none" => thread'[h].task = t /\ thread'[h].at = label
    BY <1>0, <1>2, <1>3, ThreadSteps DEF Idle
  <1>5. \A g \in Threads : thread[g].at # "none" =>
          g # h /\ thread[g].task \in Tasks /\ thread[g].task # t /\ thread[g].task \notin old
    BY DEF Idle, Inv, Threading, Active, Once
  <1>6. OneThread'
    <2>1. \A g, k \in Threads :
            thread'[g].at # "none" /\ thread'[k].at # "none" /\ thread'[g].task = thread'[k].task => g = k
      BY <1>4, <1>5 DEF Inv, TasksInv, OneThread
    <2>2. \A g \in Threads : thread'[g].at \notin {"none", "lost"} =>
            task'[thread'[g].task] = IF thread'[g].at = "start" THEN "queued" ELSE "running"
      <3>1. SUFFICES ASSUME NEW g \in Threads, thread'[g].at \notin {"none", "lost"}
                     PROVE  task'[thread'[g].task] = IF thread'[g].at = "start" THEN "queued" ELSE "running"
        OBVIOUS
      <3>2. CASE g = h
        BY <1>1, <1>2, <1>4, <3>1, <3>2
      <3>3. CASE g # h
        BY <1>1, <1>2, <1>4, <1>5, <3>1, <3>3 DEF Inv, TasksInv, OneThread
      <3> QED BY <3>2, <3>3
    <2> QED BY <2>1, <2>2 DEF OneThread
  <1>7. \A u \in old' : task'[u] \in Terminal
    BY <1>0, <1>1, <1>2 DEF Inv, TasksInv
  <1>8. Threading'
    BY <1>1, <1>2, <1>3, <1>4, <1>5 DEF Inv, Threading
  <1>9. \A u \in Tasks : Active(u)' => Active(u) \/ u = t
    BY <1>4 DEF Active
  <1>10. Once'
    <2>1. \A u \in old' : ran'[u] = 0 /\ ~Active(u)'
      BY <1>0, <1>9 DEF Inv, Once
    <2>2. \A g \in Threads : thread'[g].at \in {"start", "begin"} => ran'[thread'[g].task] = 0
      BY <1>4, <1>5 DEF Inv, Once
    <2> QED BY <2>1, <2>2 DEF Inv, Once, AtMostOnce
  <1>11. \A u \in Tasks : Held(u)' => u = t \/ Held(u)
    BY <1>9 DEF Held
  <1>12. \A u \in Tasks : Held(u)' => new[u] # "none"
    <2>1. \A u \in Tasks : Held(u) => u \notin old
      BY <1>0 DEF Held, Inv, Once
    <2> QED BY <1>1, <1>11, <2>1 DEF Inv, Kept
  <1>13. SaveRaises => \A u \in Tasks : Held(u)' => Held(u)
    <2>1. SUFFICES ASSUME SaveRaises PROVE \A u \in Tasks : Held(u)' => Held(u)
      OBVIOUS
    <2>2. thread' = thread
      BY <2>1 DEF Save, Saved, Backed, SaveRaises, Fault
    <2> QED BY <2>2 DEF Held, Active
  <1>14. old' \subseteq Tasks /\ answered' \subseteq Tasks /\ ran' \in [Tasks -> Nat]
    BY <1>0
  <1> HIDE DEF new
  <1>15. Save(new, Runs(h, label, t), thread)
    BY DEF new
  <1> QED BY <1>1, <1>4, <1>6, <1>7, <1>8, <1>10, <1>12, <1>13, <1>14, <1>15, SaveMoves

LEMMA RequestsMove ==
    ASSUME Inv, List \/ \E t \in Tasks : Request(t) \/ Expire(t)
    PROVE  Inv'
  <1>0. /\ answered \subseteq Tasks /\ old \subseteq Tasks /\ conv \subseteq Tasks
        /\ task \in [Tasks -> Statuses] /\ ran \in [Tasks -> Nat] /\ thread \in ThreadType
    BY DEF Inv, TasksInv, TypeOK, ThreadType, Labels
  <1>1. CASE List
    BY <1>0, <1>1, KeepMoves DEF List
  <1>2. ASSUME NEW t \in Tasks, SubmitKnown(t) PROVE Inv'
    BY <1>0, <1>2, KeepMoves DEF SubmitKnown
  <1>3. ASSUME NEW t \in Tasks, SubmitNew(t) PROVE Inv'
    <2>1. PICK h \in Threads : Idle(h) /\ Save([Cleaned EXCEPT ![t] = "queued"], Runs(h, "start", t), thread)
      BY <1>3 DEF SubmitNew
    <2>2. up /\ old' = {} /\ UNCHANGED <<ran, answered>> /\ conv' \subseteq Tasks /\ Cleaned[t] = "none"
      BY <1>0, <1>3 DEF SubmitNew, Forget
    <2>3. Cleaned \in [Tasks -> Statuses] /\ \A u \in Tasks : u \notin old => Cleaned[u] = task[u]
      BY <1>0 DEF Cleaned, Statuses
    <2>4. ~Active(t) /\ ran[t] = 0
      BY <1>0, <2>2, <2>3 DEF Inv, Once, Kept, Held
    <2> QED BY <2>1, <2>2, <2>3, <2>4, BeginMoves
  <1>4. ASSUME NEW t \in Tasks, Resume(t) PROVE Inv'
    <2>1. PICK h \in Threads : Idle(h) /\ Save([task EXCEPT ![t] = "running"], Runs(h, "poll", t), thread)
      BY <1>4 DEF Resume
    <2>2. up /\ task[t] = "timeout" /\ old' = old \ {t} /\ UNCHANGED <<conv, ran, answered>>
      BY <1>4 DEF Resume, Resumable
    <2>3. ~Active(t)
      BY <2>2 DEF Active, Inv, TasksInv, OneThread, Threading
    <2> QED BY <1>0, <2>1, <2>2, <2>3, BeginMoves
  <1>5. ASSUME NEW t \in Tasks, Expire(t) PROVE Inv'
    <2>1. /\ up /\ task[t] \in Terminal /\ ~Active(t)
          /\ old' = old \cup {t} /\ ran' = [ran EXCEPT ![t] = 0] /\ answered' = answered \ {t}
          /\ UNCHANGED <<up, task, conv, disk, thread, crashes>>
      BY <1>5 DEF Expire, Active
    <2>2. ran' \in [Tasks -> Nat] /\ ran'[t] = 0 /\ \A u \in Tasks : u # t => ran'[u] = ran[u]
      BY <1>0, <2>1
    <2>3. \A u \in Tasks : Active(u)' <=> Active(u)
      BY <2>1 DEF Active
    <2>4. OneThread' /\ Threading'
      BY <2>1 DEF Inv, TasksInv, OneThread, Threading
    <2>5. Once'
      <3>1. \A h \in Threads : thread[h].at \in {"start", "begin"} => thread[h].task \in Tasks
        BY DEF Inv, Threading
      <3> QED BY <1>0, <2>1, <2>2, <2>3, <3>1 DEF Inv, Once, AtMostOnce
    <2>6. \A u \in Tasks : Held(u)' => Held(u)
      BY <1>0, <2>2, <2>3 DEF Held
    <2>7. \A u \in old' : task[u] \in Terminal
      BY <2>1 DEF Inv, TasksInv
    <2> QED BY <1>0, <2>1, <2>2, <2>4, <2>5, <2>6, <2>7, QuietMoves
  <1> QED BY <1>1, <1>2, <1>3, <1>4, <1>5 DEF Request

-----------------------------------------------------------------------------
(* Crashes and restarts *)

LEMMA CrashesMove ==
    ASSUME Inv, Crash \/ CrashSaving
    PROVE  Inv'
  <1>0. /\ answered \subseteq Tasks /\ old \subseteq Tasks
        /\ task \in [Tasks -> Statuses] /\ ran \in [Tasks -> Nat]
    BY DEF Inv, TasksInv, TypeOK
  <1>1. up /\ Down
    BY DEF Crash, CrashSaving
  <1>2. \A h \in Threads : thread'[h].at = "none"
    BY <1>1 DEF Down, NoThreads
  <1>3. \A t \in Tasks : ~Active(t)'
    BY <1>2 DEF Active
  <1>4. OneThread' /\ Threading'
    BY <1>2 DEF OneThread, Threading
  <1>5. Once'
    BY <1>0, <1>1, <1>2, <1>3 DEF Down, Inv, Once, AtMostOnce
  <1>6. ~up' /\ WriteThrough'
    BY <1>1 DEF Down, WriteThrough
  <1>7. /\ thread' \in [Threads -> [at : Labels, task : Tasks \cup {"none"}]]
        /\ task' \in [Tasks -> Statuses] /\ conv' \subseteq Tasks /\ crashes' \in 0..MaxCrashes
    BY <1>1, TasksAssumption DEF Down, NoThreads, NoTasks, Labels, Statuses, Inv, TasksInv, TypeOK
  <1>8. \A t \in Tasks : Held(t)' => ran[t] > 0 /\ Held(t)
    BY <1>1, <1>3 DEF Down, Held
  <1>9. /\ Copies' /\ main' \in Types /\ bak' \in Types
        /\ fault' \in {"none", "raised", "backup", "torn"}
        /\ \A t \in Tasks : Held(t)' => Read'[t] # "none" /\ (fault' = "none" => bak'[t] # "none")
    <2>1. CASE UNCHANGED disk
      <3>1. UNCHANGED <<main, bak, fault, Read>>
        BY <2>1 DEF disk, Read
      <3> QED BY <1>8, <3>1 DEF Inv, TasksInv, TypeOK, Types, Copies, Kept
    <2>2. ASSUME NEW new \in [Tasks -> Statuses], SaveCrashes(new),
                 \A t \in Tasks : t \notin old => (task[t] # "none" => new[t] # "none")
          PROVE  /\ Copies' /\ main' \in Types /\ bak' \in Types
                 /\ fault' \in {"none", "raised", "backup", "torn"}
                 /\ \A t \in Tasks : Held(t)' => Read'[t] # "none" /\ (fault' = "none" => bak'[t] # "none")
      <3>1. \A t \in Tasks : Held(t)' => new[t] # "none"
        <4>1. \A t \in Tasks : ran[t] > 0 => t \notin old
          BY <1>0 DEF Inv, Once
        <4> QED BY <1>1, <1>8, <2>2, <4>1 DEF Inv, Kept
      <3>2. /\ Copies' /\ main' \in Types /\ bak' \in Types
            /\ fault' \in {"none", "raised", "backup", "torn"}
            /\ Read' = new \/ (fault = "none" /\ Read' = bak)
            /\ fault' = "none" => fault = "none" /\ bak' = bak
        BY <2>2, CrashedHolds DEF Inv, TasksInv
      <3> QED BY <1>8, <3>1, <3>2 DEF Inv, Kept
    <2>3. CASE CrashSaving
      <3>1. Cleaned \in [Tasks -> Statuses] /\ \A u \in Tasks : u \notin old => Cleaned[u] = task[u]
        BY <1>0 DEF Cleaned, Statuses
      <3>2. CASE SaveCrashes(Cleaned)
        BY <2>2, <3>1, <3>2
      <3>3. ASSUME NEW t \in Tasks, NEW s \in Statuses \ {"none"},
                   SaveCrashes([(IF s = "queued" THEN Cleaned ELSE task) EXCEPT ![t] = s])
            PROVE  /\ Copies' /\ main' \in Types /\ bak' \in Types
                   /\ fault' \in {"none", "raised", "backup", "torn"}
                   /\ \A u \in Tasks : Held(u)' => Read'[u] # "none" /\ (fault' = "none" => bak'[u] # "none")
        <4> DEFINE new == [(IF s = "queued" THEN Cleaned ELSE task) EXCEPT ![t] = s]
        <4>1. new \in [Tasks -> Statuses] /\ \A u \in Tasks : u \notin old => (task[u] # "none" => new[u] # "none")
          BY <1>0, <3>1
        <4> QED BY <2>2, <3>3, <4>1
      <3> QED BY <2>3, <3>2, <3>3 DEF CrashSaving
    <2> QED BY <2>1, <2>3 DEF Crash
  <1>10. TypeOK'
    BY <1>1, <1>7, <1>9, <1>0 DEF Down, TypeOK, Types, Labels
  <1>11. Kept'
    BY <1>6, <1>9 DEF Kept
  <1> QED BY <1>1, <1>4, <1>5, <1>6, <1>9, <1>10, <1>11 DEF Down, Inv, TasksInv

LEMMA StartMoves ==
    ASSUME Inv, Start
    PROVE  Inv'
  <1> DEFINE kept == {t \in old : Read[t] \in Terminal}
  <1> DEFINE new == [t \in Tasks |-> IF t \in kept THEN "none" ELSE Recovered(Read)[t]]
  <1>0. /\ answered \subseteq Tasks /\ old \subseteq Tasks /\ conv \subseteq Tasks
        /\ task \in [Tasks -> Statuses] /\ ran \in [Tasks -> Nat]
        /\ NoTasks \in [Tasks -> Statuses]
    BY DEF Inv, TasksInv, TypeOK, NoTasks, Statuses
  <1>1. Read \in [Tasks -> Statuses]
    BY <1>0 DEF Read, Inv, TasksInv, TypeOK
  <1>2. new \in [Tasks -> Statuses]
    BY <1>1 DEF Recovered, Statuses, Terminal
  <1>3. /\ ~up
        /\ \/ new = Read /\ UNCHANGED disk /\ up' = TRUE /\ task' = new
           \/ new # Read /\ Saved(new) /\ up' = TRUE /\ task' = new
           \/ new # Read /\ SaveRaises /\ UNCHANGED <<up, task>>
           \/ new # Read /\ SaveCrashes(new) /\ UNCHANGED <<up, task>>
        /\ IF up' THEN old' = {} ELSE UNCHANGED old
        /\ UNCHANGED <<conv, thread, crashes, ran, answered>>
    BY DEF Start
  <1>4. \A t \in Tasks : Active(t)' <=> Active(t)
    BY <1>3 DEF Active
  <1>5. \A h \in Threads : thread[h].at = "none"
    BY <1>3 DEF Inv, Threading
  <1>6. OneThread' /\ Threading'
    BY <1>3, <1>5 DEF OneThread, Threading
  <1>7. Once' /\ \A t \in Tasks : Held(t)' => Held(t) /\ t \notin old
    <2>1. Once'
      BY <1>0, <1>3, <1>4, <1>5 DEF Inv, Once, AtMostOnce
    <2>2. \A t \in Tasks : Held(t)' => Held(t)
      BY <1>3, <1>4 DEF Held
    <2>3. \A t \in old : ~Held(t)
      BY <1>0 DEF Inv, Once, Held
    <2> QED BY <2>1, <2>2, <2>3
  <1>8. \A t \in Tasks : Held(t)' => new[t] # "none"
    BY <1>1, <1>7 DEF Inv, Kept, Recovered
  <1>9. \A t \in old' : up' => task'[t] \in Terminal
    BY <1>3
  <1> HIDE DEF new
  <1>10. /\ Copies' /\ main' \in Types /\ bak' \in Types
         /\ fault' \in {"none", "raised", "backup", "torn"}
         /\ \A t \in Tasks : Held(t)' => Read'[t] # "none" /\ (fault' = "none" => bak'[t] # "none")
         /\ up' => Read' = task' /\ task' = new
    <2>1. CASE UNCHANGED disk /\ new = Read /\ task' = new
      <3>1. UNCHANGED <<main, bak, fault, Read>>
        BY <2>1 DEF disk, Read
      <3> QED BY <1>3, <1>7, <2>1, <3>1 DEF Inv, TasksInv, TypeOK, Types, Copies, Kept
    <2>2. CASE Saved(new) /\ task' = new
      <3>1. /\ Read' = new /\ Copies' /\ (fault' = "none" => bak' = new)
            /\ main' \in Types /\ bak' \in Types
            /\ fault' \in {"none", "raised", "backup", "torn"}
        BY <1>2, <2>2, SavedHolds DEF Inv, TasksInv
      <3> QED BY <1>8, <2>2, <3>1
    <2>3. CASE SaveRaises /\ ~up'
      <3>1. /\ fault = "none" /\ fault' = "raised" /\ Copies'
            /\ main' \in Types /\ bak' = bak /\ bak' \in Types
            /\ Read' \in {Read, bak}
        BY <2>3, RaisedHolds DEF Inv, TasksInv
      <3> QED BY <1>7, <2>3, <3>1 DEF Inv, Kept
    <2>4. CASE SaveCrashes(new) /\ ~up'
      <3>1. /\ Copies' /\ main' \in Types /\ bak' \in Types
            /\ fault' \in {"none", "raised", "backup", "torn"}
            /\ Read' = new \/ (fault = "none" /\ Read' = bak)
            /\ fault' = "none" => fault = "none" /\ bak' = bak
        BY <1>2, <2>4, CrashedHolds DEF Inv, TasksInv
      <3> QED BY <1>7, <1>8, <2>4, <3>1 DEF Inv, Kept
    <2> QED BY <1>3, <2>1, <2>2, <2>3, <2>4
  <1>11. TypeOK'
    BY <1>0, <1>2, <1>3, <1>10 DEF Inv, TasksInv, TypeOK, Types
  <1>12. Kept' /\ WriteThrough'
    BY <1>8, <1>10 DEF Kept, WriteThrough
  <1> QED BY <1>6, <1>7, <1>9, <1>10, <1>11, <1>12 DEF Inv, TasksInv

LEMMA StepInv == Inv /\ [Next]_vars => Inv'
  <1> SUFFICES ASSUME Inv, [Next]_vars PROVE Inv'
    OBVIOUS
  <1>1. CASE Next
    BY <1>1, ThreadsMove, RequestsMove, CrashesMove, StartMoves DEF Next
  <1>2. CASE UNCHANGED vars
    BY <1>2 DEF vars, disk, Inv, TasksInv, TypeOK, OneThread, Threading, WriteThrough, Read,
                Copies, Kept, Held, Active, Once, AtMostOnce
  <1> QED BY <1>1, <1>2

-----------------------------------------------------------------------------
(* A success that was shown *)

\* What was shown as a success is one in the memory and in the file, unless a
\* write was cut short or raised; and as long as none raised, a thread in the
\* except clause has not set its task to success.
Shown ==
    /\ answered \cap old = {}
    /\ fault # "raised" => \A h \in Threads : thread[h].at = "lost" => task[thread[h].task] = "running"
    /\ fault \in {"none", "backup"} =>
         /\ main # Torn
         /\ \A t \in answered : main[t] = "success" /\ (up => task[t] = "success")

LEMMA InitShown == Init => Shown
  BY TasksAssumption DEF Init, Shown, NoThreads, NoTasks, Statuses

\* A save that does not take a shown success back.
LEMMA SaveShows ==
    ASSUME Inv, Shown, NEW new \in [Tasks -> Statuses], Saved(new) \/ SaveRaises, task' = new,
           answered' \cap old' = {},
           Saved(new) /\ fault # "raised" =>
             \A h \in Threads : thread'[h].at = "lost" => new[thread'[h].task] = "running",
           fault \in {"none", "backup"} => \A t \in answered' : new[t] = "success"
    PROVE  Shown'
  <1>1. CASE Saved(new)
    <2>1. main' = new /\ new # Torn
      BY <1>1, TasksAssumption DEF Saved
    <2>2. fault' = fault \/ (fault = "none" /\ fault' = "backup")
      BY <1>1 DEF Saved, Backed, Fault
    <2> QED BY <1>1, <2>1, <2>2 DEF Shown
  <1>2. CASE SaveRaises
    BY <1>2 DEF SaveRaises, Fault, Shown
  <1> QED BY <1>1, <1>2

\* An update by a thread leaves the shown successes alone: theirs have no
\* thread.
LEMMA UpdateShows ==
    ASSUME Inv, Shown, NEW h \in Threads, NEW status \in Unfinished \cup Terminal,
           NEW after \in ThreadType, NEW raised, thread[h].at \notin {"none"},
           Update(h, status, after, raised),
           after[h].at \notin {"lost"}, \A g \in Threads : g # h => after[g] = thread[g],
           UNCHANGED <<old, answered>>
    PROVE  Shown'
  <1> DEFINE t == thread[h].task
  <1> DEFINE new == [task EXCEPT ![t] = status]
  <1>1. t \in Tasks /\ task[t] # "none"
    BY DEF Inv, Threading, Kept, Held, Active
  <1>2. Save(new, after, raised)
    BY <1>1 DEF Update
  <1>3. new \in [Tasks -> Statuses] /\ \A u \in Tasks : u # t => new[u] = task[u]
    BY <1>1 DEF Inv, TasksInv, TypeOK, Statuses
  <1>4. \A g \in Threads : g # h /\ thread[g].at # "none" => thread[g].task # t /\ thread[g].task \in Tasks
    BY DEF Inv, Threading, TasksInv, OneThread
  <1>5. fault # "raised" => task[t] # "success"
    BY DEF Inv, TasksInv, OneThread, Shown
  <1>6. ASSUME fault \in {"none", "backup"} PROVE \A u \in answered' : new[u] = "success"
    BY <1>3, <1>5, <1>6 DEF Shown, Inv, Threading, TasksInv, TypeOK
  <1>7. ASSUME Saved(new), fault # "raised", NEW g \in Threads, thread'[g].at = "lost"
        PROVE  new[thread'[g].task] = "running"
    <2>1. thread' = after
      BY <1>2, <1>7 DEF Save, Saved, Backed, SaveRaises, Fault
    <2>2. g # h /\ thread'[g] = thread[g]
      BY <1>7, <2>1
    <2> QED BY <1>3, <1>4, <1>7, <2>2 DEF Shown
  <1>8. task' = new /\ (Saved(new) \/ SaveRaises) /\ answered' \cap old' = {}
    BY <1>2 DEF Save, Shown
  <1> HIDE DEF new
  <1> QED BY <1>3, <1>6, <1>7, <1>8, SaveShows

LEMMA ThreadsShow ==
    ASSUME Inv, Shown, NEW h \in Threads, Thread(h) \/ Work(h) \/ Progress(h)
    PROVE  Shown'
  <1>0. thread \in ThreadType /\ task \in [Tasks -> Statuses]
    BY DEF Inv, TasksInv, TypeOK, ThreadType, Labels
  <1>1. thread[h].at # "none" /\ up /\ thread[h].task \in Tasks
    BY DEF Thread, Work, Progress, RunStarts, HandlerCalled, Caught, Succeed, Fail, Inv, Threading
  <1>2. /\ Goes(h, "begin") \in ThreadType /\ Goes(h, "begin")[h].at = "begin"
        /\ Ends(h) \in ThreadType /\ Ends(h)[h].at = "none"
        /\ \A g \in Threads : g # h => Goes(h, "begin")[g] = thread[g] /\ Ends(h)[g] = thread[g]
    BY <1>0, <1>1, ThreadSteps DEF Labels
  <1>3. CASE RunStarts(h)
    BY <1>1, <1>2, <1>3, UpdateShows DEF RunStarts, Unfinished
  <1>4. CASE Succeed(h)
    BY <1>1, <1>2, <1>4, UpdateShows DEF Succeed, Terminal
  <1>5. CASE Caught(h)
    <2>1. PICK status \in Terminal : Update(h, status, Ends(h), Ends(h))
      BY <1>5 DEF Caught, Terminal
    <2> QED BY <1>1, <1>2, <1>5, <2>1, UpdateShows DEF Caught
  <1>6. CASE HandlerCalled(h) \/ Progress(h) \/ Fail(h)
    <2>1. /\ UNCHANGED <<up, task, old, answered>>
          /\ UNCHANGED disk \/ Saved(task) \/ SaveRaises
          /\ task[thread[h].task] = "running"
      BY <1>6 DEF HandlerCalled, Progress, Fail, Inv, TasksInv, OneThread
    <2>2. SaveRaises \/ thread' \in {thread, Goes(h, "work"), Goes(h, "lost"), Goes(h, "late")}
      BY <1>6 DEF HandlerCalled, Progress, Fail
    <2>3. ASSUME ~SaveRaises, NEW g \in Threads, thread'[g].at = "lost", fault # "raised"
          PROVE  task[thread'[g].task] = "running"
      <3>1. g # h => thread'[g] = thread[g]
        BY <1>0, <1>1, <2>2, <2>3, ThreadSteps DEF Labels
      <3>2. thread'[h].task = thread[h].task
        BY <1>0, <1>1, <2>2, <2>3, ThreadSteps DEF Labels
      <3> QED BY <2>1, <2>3, <3>1, <3>2 DEF Shown
    <2>4. CASE UNCHANGED disk
      <3>1. UNCHANGED <<main, bak, fault>> /\ ~SaveRaises
        BY <2>4 DEF disk, SaveRaises, Fault
      <3> QED BY <2>1, <2>3, <3>1 DEF Shown
    <2>5. CASE Saved(task) \/ SaveRaises
      <3>1. Saved(task) => ~SaveRaises
        BY DEF Saved, Backed, SaveRaises, Fault
      <3> QED BY <1>0, <1>1, <2>1, <2>3, <2>5, <3>1, SaveShows DEF Shown
    <2> QED BY <2>1, <2>4, <2>5
  <1> QED BY <1>3, <1>4, <1>5, <1>6 DEF Thread, Work

\* A cleanup takes no shown success: their retention is not over.
LEMMA CleanedShows ==
    ASSUME Inv, Shown
    PROVE  /\ Cleaned \in [Tasks -> Statuses]
           /\ \A t \in Tasks : t \notin old => Cleaned[t] = task[t]
           /\ up /\ fault \in {"none", "backup"} => \A t \in answered : t \in Tasks /\ Cleaned[t] = "success"
           /\ fault # "raised" => \A h \in Threads : thread[h].at = "lost" => Cleaned[thread[h].task] = "running"
  <1>1. Cleaned \in [Tasks -> Statuses] /\ \A t \in Tasks : t \notin old => Cleaned[t] = task[t]
    BY DEF Cleaned, Inv, TasksInv, TypeOK, Statuses
  <1>2. up /\ fault \in {"none", "backup"} => \A t \in answered : t \in Tasks /\ Cleaned[t] = "success"
    BY <1>1 DEF Shown, Inv, TasksInv, TypeOK
  <1>3. \A h \in Threads : thread[h].at = "lost" => thread[h].task \in Tasks /\ thread[h].task \notin old
    BY DEF Inv, Threading, Once, Active
  <1> QED BY <1>1, <1>2, <1>3 DEF Shown

LEMMA RequestsShow ==
    ASSUME Inv, Shown, List \/ \E t \in Tasks : Request(t) \/ Expire(t)
    PROVE  Shown'
  <1>0. task \in [Tasks -> Statuses] /\ thread \in ThreadType /\ answered \subseteq Tasks /\ old \subseteq Tasks
    BY DEF Inv, TasksInv, TypeOK, ThreadType, Labels
  <1>1. ASSUME up, Keep, Forget, answered' \subseteq answered \cup {t \in Tasks : Cleaned[t] = "success"}
        PROVE  Shown'
    <2>1. CASE old = {}
      <3>1. UNCHANGED <<task, main, bak, fault, thread, up>> /\ old' = {}
        BY <1>1, <2>1 DEF Keep, Forget, disk
      <3>2. task = Cleaned
        BY <1>0, <2>1 DEF Cleaned
      <3>3. fault \in {"none", "backup"} => main = task
        BY <1>1 DEF Inv, WriteThrough, Read, Shown
      <3> QED BY <1>0, <1>1, <3>1, <3>2, <3>3 DEF Shown
    <2>2. CASE old # {}
      <3>1. task' = Cleaned /\ thread' = thread /\ (Saved(Cleaned) \/ SaveRaises) /\ old' = {}
        BY <1>1, <2>2 DEF Keep, Save, Forget
      <3> HIDE DEF Cleaned
      <3> QED BY <1>1, <3>1, CleanedShows, SaveShows
    <2> QED BY <2>1, <2>2
  <1>2. CASE List
    BY <1>1, <1>2 DEF List
  <1>3. ASSUME NEW t \in Tasks, SubmitKnown(t) PROVE Shown'
    BY <1>1, <1>3 DEF SubmitKnown
  <1>4. ASSUME NEW t \in Tasks, NEW h \in Threads, Idle(h), up, ~Active(t),
               NEW base \in [Tasks -> Statuses], base \in {Cleaned, task},
               base[t] # "success", NEW status \in {"queued", "running"}, NEW label \in {"start", "poll"},
               Save([base EXCEPT ![t] = status], Runs(h, label, t), thread),
               old' \subseteq old, answered' = answered
        PROVE  Shown'
    <2> DEFINE new == [base EXCEPT ![t] = status]
    <2>1. new \in [Tasks -> Statuses] /\ \A u \in Tasks : u # t => new[u] = base[u]
      BY DEF Statuses, Unfinished
    <2>2. up /\ fault \in {"none", "backup"} => \A u \in answered : u \in Tasks /\ base[u] = "success"
      BY <1>0, <1>4, CleanedShows DEF Shown
    <2>3. fault # "raised" => \A g \in Threads : thread[g].at = "lost" => base[thread[g].task] = "running"
      BY <1>4, CleanedShows DEF Shown
    <2>4. fault \in {"none", "backup"} => \A u \in answered' : new[u] = "success"
      BY <1>4, <2>1, <2>2
    <2>5. ASSUME Saved(new), fault # "raised", NEW g \in Threads, thread'[g].at = "lost"
          PROVE  new[thread'[g].task] = "running"
      <3>1. thread' = Runs(h, label, t)
        BY <1>4, <2>5 DEF Save, Saved, Backed, SaveRaises, Fault
      <3>2. g # h /\ thread'[g] = thread[g]
        BY <1>0, <1>4, <2>5, <3>1, ThreadSteps DEF Labels
      <3>3. thread[g].task # t /\ thread[g].task \in Tasks
        BY <1>4, <2>5, <3>2 DEF Active, Inv, Threading
      <3> QED BY <2>1, <2>3, <2>5, <3>2, <3>3
    <2>6. task' = new /\ (Saved(new) \/ SaveRaises) /\ answered' \cap old' = {}
      BY <1>4 DEF Save, Shown
    <2> HIDE DEF new
    <2> QED BY <2>1, <2>4, <2>5, <2>6, SaveShows
  <1>5. ASSUME NEW t \in Tasks, SubmitNew(t) PROVE Shown'
    <2>1. PICK h \in Threads : Idle(h) /\ Save([Cleaned EXCEPT ![t] = "queued"], Runs(h, "start", t), thread)
      BY <1>5 DEF SubmitNew
    <2>2. up /\ old' \subseteq old /\ answered' = answered /\ Cleaned[t] = "none"
      BY <1>5 DEF SubmitNew, Forget
    <2>3. ~Active(t)
      BY <1>0, <2>2, CleanedShows DEF Inv, Once, Kept, Held
    <2> QED BY <1>4, <2>1, <2>2, <2>3, CleanedShows
  <1>6. ASSUME NEW t \in Tasks, Resume(t) PROVE Shown'
    <2>1. PICK h \in Threads : Idle(h) /\ Save([task EXCEPT ![t] = "running"], Runs(h, "poll", t), thread)
      BY <1>6 DEF Resume
    <2>2. up /\ task[t] = "timeout" /\ old' \subseteq old /\ answered' = answered
      BY <1>6 DEF Resume, Resumable
    <2>3. ~Active(t)
      BY <2>2 DEF Active, Inv, TasksInv, OneThread, Threading
    <2> QED BY <1>0, <1>4, <2>1, <2>2, <2>3
  <1>7. ASSUME NEW t \in Tasks, Expire(t) PROVE Shown'
    <2>1. /\ UNCHANGED <<up, task, main, bak, fault, thread>>
          /\ old' = old \cup {t} /\ answered' = answered \ {t}
      BY <1>7 DEF Expire, disk
    <2> QED BY <2>1 DEF Shown
  <1> QED BY <1>2, <1>3, <1>5, <1>6, <1>7 DEF Request

\* A save that is cut short tears the file, or is complete.
LEMMA CutShort ==
    ASSUME NEW new \in [Tasks -> Statuses], SaveCrashes(new)
    PROVE  fault' = "torn" \/ (main' = new /\ main' # Torn /\ fault' = fault)
  BY TasksAssumption DEF SaveCrashes, Fault

LEMMA CrashesShow ==
    ASSUME Inv, Shown, Crash \/ CrashSaving
    PROVE  Shown'
  <1>0. task \in [Tasks -> Statuses] /\ answered \subseteq Tasks
    BY DEF Inv, TasksInv, TypeOK
  <1>1. up /\ ~up' /\ UNCHANGED <<old, answered>> /\ \A h \in Threads : thread'[h].at = "none"
    BY DEF Crash, CrashSaving, Down, NoThreads
  <1>2. CASE Crash
    BY <1>1, <1>2 DEF Crash, disk, Shown
  <1>3. ASSUME NEW new \in [Tasks -> Statuses], SaveCrashes(new),
               fault \in {"none", "backup"} => \A t \in answered : new[t] = "success"
        PROVE  Shown'
    BY <1>1, <1>3, CutShort DEF Shown
  <1>4. CASE CrashSaving
    <2>1. CASE SaveCrashes(Cleaned)
      BY <1>1, <1>3, <2>1, CleanedShows
    <2>2. ASSUME NEW t \in Tasks, NEW s \in Statuses \ {"none"},
                 \/ s = "queued" /\ Cleaned[t] = "none"
                 \/ s = "running" /\ Resumable(t)
                 \/ \E h \in Threads :
                      /\ thread[h].task = t /\ task[t] # "none"
                      /\ \/ s = "running" /\ thread[h].at \in {"start", "begin", "work"}
                         \/ s = "success" /\ thread[h].at \in {"work", "poll"}
                         \/ s = "failed"  /\ thread[h].at = "lost"
                         \/ s = "timeout" /\ thread[h].at = "late",
                 SaveCrashes([(IF s = "queued" THEN Cleaned ELSE task) EXCEPT ![t] = s])
          PROVE  Shown'
      <3> DEFINE base == IF s = "queued" THEN Cleaned ELSE task
      <3> DEFINE new == [base EXCEPT ![t] = s]
      <3>1. base \in [Tasks -> Statuses]
        BY <1>0, CleanedShows
      <3>2. new \in [Tasks -> Statuses] /\ \A u \in Tasks : u # t => new[u] = base[u]
        BY <3>1
      <3>3. fault \in {"none", "backup"} => \A u \in answered : u \in Tasks /\ base[u] = "success"
        BY <1>0, <1>1, CleanedShows DEF Shown
      <3>4. fault \in {"none", "backup"} => base[t] # "success"
        <4>1. CASE s = "queued" /\ Cleaned[t] = "none"
          BY <4>1
        <4>2. CASE s = "running" /\ Resumable(t)
          BY <4>2 DEF Resumable
        <4>3. ASSUME NEW h \in Threads, thread[h].task = t, thread[h].at # "none", s # "queued",
                     fault \in {"none", "backup"}
              PROVE  task[t] # "success"
          BY <4>3 DEF Inv, TasksInv, OneThread, Shown
        <4> QED BY <2>2, <4>1, <4>2, <4>3
      <3>5. fault \in {"none", "backup"} => \A u \in answered : new[u] = "success"
        BY <3>2, <3>3, <3>4
      <3> HIDE DEF new
      <3>6. SaveCrashes(new)
        BY <2>2 DEF new
      <3> QED BY <1>3, <3>2, <3>5, <3>6
    <2> QED BY <1>4, <2>1, <2>2 DEF CrashSaving
  <1> QED BY <1>2, <1>4

\* A restart changes what was unfinished or past its retention, and no more.
LEMMA StartShows ==
    ASSUME Inv, Shown, Start
    PROVE  Shown'
  <1> DEFINE kept == {t \in old : Read[t] \in Terminal}
  <1> DEFINE new == [t \in Tasks |-> IF t \in kept THEN "none" ELSE Recovered(Read)[t]]
  <1>0. answered \subseteq Tasks /\ NoTasks \in [Tasks -> Statuses]
    BY DEF Inv, TasksInv, TypeOK, NoTasks, Statuses
  <1>1. Read \in [Tasks -> Statuses]
    BY <1>0 DEF Read, Inv, TasksInv, TypeOK
  <1>2. new \in [Tasks -> Statuses]
    BY <1>1 DEF Recovered, Statuses, Terminal
  <1>3. /\ ~up
        /\ \/ new = Read /\ UNCHANGED disk /\ up' = TRUE /\ task' = new
           \/ Saved(new) /\ up' = TRUE /\ task' = new
           \/ SaveRaises /\ UNCHANGED <<up, task>>
           \/ SaveCrashes(new) /\ UNCHANGED <<up, task>>
        /\ old' \subseteq old
        /\ UNCHANGED <<thread, answered>>
    BY DEF Start
  <1>4. \A h \in Threads : thread[h].at = "none"
    BY <1>3 DEF Inv, Threading
  <1>5. fault \in {"none", "backup"} => main = Read /\ \A t \in answered : Read[t] = "success"
    BY DEF Shown, Read
  <1>6. fault \in {"none", "backup"} => \A t \in answered : new[t] = "success"
    BY <1>0, <1>1, <1>5 DEF Recovered, Unfinished, Shown
  <1> HIDE DEF new
  <1>7. CASE new = Read /\ UNCHANGED disk /\ task' = new
    BY <1>3, <1>4, <1>5, <1>6, <1>7 DEF disk, Shown
  <1>8. CASE (Saved(new) /\ task' = new) \/ (SaveRaises /\ ~up')
    BY <1>2, <1>3, <1>4, <1>6, <1>8, SaveShows DEF Shown, SaveRaises, Fault
  <1>9. CASE SaveCrashes(new) /\ ~up'
    BY <1>2, <1>3, <1>4, <1>6, <1>9, CutShort DEF Shown
  <1> QED BY <1>3, <1>7, <1>8, <1>9

LEMMA StepShown == Inv /\ Shown /\ [Next]_vars => Shown'
  <1> SUFFICES ASSUME Inv, Shown, [Next]_vars PROVE Shown'
    OBVIOUS
  <1>1. CASE Next
    BY <1>1, ThreadsShow, RequestsShow, CrashesShow, StartShows DEF Next
  <1>2. CASE UNCHANGED vars
    BY <1>2 DEF vars, disk, Shown
  <1> QED BY <1>1, <1>2

-----------------------------------------------------------------------------
\* One thread at most works on a task, and what it works on is not shown as
\* finished: resuming and submitting cannot race.
THEOREM TasksExclusive == Spec => []TasksInv
  <1>1. Inv => TasksInv
    BY DEF Inv
  <1> QED BY InitInv, StepInv, <1>1, PTL DEF Spec

\* What clients are shown is what a restart would read.
THEOREM ShownIsStored == Spec => []WriteThrough
  <1>1. Inv => WriteThrough
    BY DEF Inv
  <1> QED BY InitInv, StepInv, <1>1, PTL DEF Spec

\* A submission repeated by the client never runs the handler twice, whatever
\* crashes come between and whichever single write goes wrong.
THEOREM HandlerOnce == Spec => []AtMostOnce
  <1>1. Inv => AtMostOnce
    BY DEF Inv, Once
  <1> QED BY InitInv, StepInv, <1>1, PTL DEF Spec

\* A success that a client was shown is shown until its retention is over, over
\* crashes and restarts, unless the write of the file raised or tore it.
THEOREM SuccessSurvives == Spec => []SuccessKept
  <1>1. Shown => SuccessKept
    BY DEF Shown, SuccessKept
  <1> QED BY InitInv, StepInv, InitShown, StepShown, <1>1, PTL DEF Spec
=============================================================================
