-------------------------------- MODULE Files --------------------------------
(***************************************************************************)
(* The descriptor table (kernel/devfs.c) and what a descriptor can stand   *)
(* for: the console, named semaphores and mutexes (kernel/ipc.c), queue    *)
(* handles (kernel/structure.c) and byte streams (kernel/stream.c).  Every *)
(* operation is a system call: one action.                                 *)
(***************************************************************************)
EXTENDS Integers, FiniteSets

CONSTANTS
    Owner,          \* tasks
    Fd, Std,        \* 0..VAIOS_MAX_FDS-1, and those open on the console from the start
    Name,           \* names of named objects
    Obj,            \* named_sems[], named_mtxs[]: 1..MAX_NAMED_SEMS, 1..MAX_NAMED_MTXS
    QHandle,        \* q_handles[]: 1..VAIOS_QUEUE_MAX_OPEN
    CloseLocked,    \* bound: a task may close a mutex it holds
    NULL

VARIABLES
    fds,            \* fds[t][fd]: what the descriptor stands for
    live,           \* tasks that exist
    obj,            \* the two tables of named objects
    mtx_owner,      \* who holds a named mutex
    held,           \* held_mutexes of each task
    qh,             \* the queue handles
    side,           \* which sides of the single-producer queue are taken
    reader          \* the stream's reader flag

fd_vars == <<fds, live, obj, mtx_owner, held, qh, side, reader>>

Entry(ops, priv, name) == [ops |-> ops, priv |-> priv, name |-> name]
Closed == Entry(NULL, 0, NULL)
Console == Entry("console", 0, NULL)
Direction == {{"rd"}, {"wr"}, {"rd", "wr"}}
Unused == [used |-> FALSE, name |-> NULL, refcount |-> 0]
NoHandle == [used |-> FALSE, spsc |-> FALSE, flags |-> {}]

\* v_fd_table_init.
FreshTable == [fd \in Fd |-> IF fd \in Std THEN Console ELSE Closed]

Init ==
    /\ fds = [t \in Owner |-> FreshTable] /\ live = Owner
    /\ obj = [k \in {"sem", "mtx"} |-> [o \in Obj |-> Unused]]
    /\ mtx_owner = [o \in Obj |-> NULL] /\ held = [t \in Owner |-> {}]
    /\ qh = [h \in QHandle |-> NoHandle] /\ side = {} /\ reader = FALSE

Least(S) == CHOOSE x \in S : \A y \in S : x <= y
FreeFds(t) == {fd \in Fd : fds[t][fd] = Closed}
IsOpen(t, fd) == t \in live /\ fds[t][fd] # Closed

\* MUTANT: nothing is known to need its close.
HasClose_None(e) == FALSE

\* e->ops->close: every kind but the console.
HasClose(e) == e.ops \notin {NULL, "console"}

\* v_fd_alloc, when there is a descriptor left.
TakeFd(t, e) == fds' = [fds EXCEPT ![t][Least(FreeFds(t))] = e]
------------------------------------------------------------------------------
(* Closing *)

\* MUTANT: the object goes with the first descriptor closed.
DropRefs_First(r, n) == IF n = 0 THEN r ELSE Unused

\* ipc_sem_close, ipc_mtx_close, n times: the object goes with the last reference.
DropRefs(r, n) ==
    IF n = 0 THEN r ELSE IF r.refcount = n THEN Unused ELSE [r EXCEPT !.refcount = @ - n]

\* The close operations of a task's descriptors F (ipc_*_close, q_fd_close, stream_close).
Close(t, F) ==
    LET of(k, x) == {fd \in F : fds[t][fd].ops = k /\ fds[t][fd].priv = x}
        handles == {h \in QHandle : of("queue", h) # {}}
    IN  /\ obj' = [k \in {"sem", "mtx"} |->
                     [o \in Obj |-> DropRefs(obj[k][o], Cardinality(of(k, o)))]]
        /\ qh' = [h \in QHandle |-> IF h \in handles THEN NoHandle ELSE qh[h]]
        /\ side' = side \ UNION {qh[h].flags : h \in {k \in handles : qh[k].spsc}}
        /\ reader' = (reader /\ of("stream_rd", 0) = {})

v_file_close(t, fd) ==
    /\ IsOpen(t, fd)
    /\ fds[t][fd].ops = "mtx" => CloseLocked \/ mtx_owner[fds[t][fd].priv] # t
    /\ Close(t, {fd})
    /\ fds' = [fds EXCEPT ![t][fd] = Closed]
    /\ UNCHANGED <<live, mtx_owner, held>>

\* v_fd_close_all: every open descriptor.
TornDown(t) == {fd \in Fd : fds[t][fd] # Closed}

\* v_ipc_task_teardown: held mutexes are released, then the descriptors closed.
Exit(t) ==
    /\ t \in live
    /\ mtx_owner' = [o \in Obj |-> IF o \in held[t] THEN NULL ELSE mtx_owner[o]]
    /\ held' = [held EXCEPT ![t] = {}]
    /\ Close(t, TornDown(t))
    /\ fds' = [fds EXCEPT ![t] = [fd \in Fd |-> Closed]]
    /\ live' = live \ {t}

\* task_create sets the table up anew.
Create(t) ==
    /\ t \notin live
    /\ live' = live \cup {t}
    /\ fds' = [fds EXCEPT ![t] = FreshTable]
    /\ UNCHANGED <<obj, mtx_owner, held, qh, side, reader>>
------------------------------------------------------------------------------
(* Opening *)

Named(kind, name) == {o \in Obj : obj[kind][o].used /\ obj[kind][o].name = name}
FreeObjs(kind) == {o \in Obj : ~obj[kind][o].used}

\* MUTANT: the reference is kept.
WithoutFd_Kept(r) == r

\* The reference of an open that found no descriptor is dropped again.
WithoutFd(r) == DropRefs(r, 1)

\* v_sem_open, v_mtx_open: find by name or create, count the reference, and take
\* a descriptor.
OpenNamed(t, kind, name, create) ==
    LET fresh == Named(kind, name) = {}
        o == IF fresh THEN Least(FreeObjs(kind)) ELSE CHOOSE x \in Named(kind, name) : TRUE
        counted == IF fresh THEN [used |-> TRUE, name |-> name, refcount |-> 1]
                   ELSE [obj[kind][o] EXCEPT !.refcount = @ + 1]
    IN  /\ t \in live
        /\ fresh => create /\ FreeObjs(kind) # {}
        /\ \/ /\ FreeFds(t) # {} /\ TakeFd(t, Entry(kind, o, name))
              /\ obj' = [obj EXCEPT ![kind][o] = counted]
           \/ /\ FreeFds(t) = {} /\ UNCHANGED fds
              /\ obj' = [obj EXCEPT ![kind][o] = WithoutFd(counted)]
        /\ mtx_owner' = IF fresh /\ kind = "mtx" THEN [mtx_owner EXCEPT ![o] = NULL]
                        ELSE mtx_owner
        /\ UNCHANGED <<live, held, qh, side, reader>>

FreeHandles == {h \in QHandle : ~qh[h].used}

\* MUTANT: a taken side of a single-producer queue is opened again.
SideFree_Always(spsc, flags) == TRUE

\* An SPSC queue has one reader and one writer, and the kernel holds them to it.
SideFree(spsc, flags) == spsc => flags \cap side = {}

\* v_queue_open: a side, a handle, a descriptor; without a descriptor the handle
\* and the side are given back.
v_queue_open(t, spsc, flags) ==
    /\ t \in live /\ SideFree(spsc, flags) /\ FreeHandles # {}
    /\ \/ /\ FreeFds(t) # {} /\ TakeFd(t, Entry("queue", Least(FreeHandles), NULL))
          /\ qh' = [qh EXCEPT ![Least(FreeHandles)] =
                      [used |-> TRUE, spsc |-> spsc, flags |-> flags]]
          /\ side' = IF spsc THEN side \cup flags ELSE side
       \/ FreeFds(t) = {} /\ UNCHANGED <<fds, qh, side>>
    /\ UNCHANGED <<live, obj, mtx_owner, held, reader>>

\* v_file_open on a stream (stream_open): for writing always, for reading once.
OpenStream(t, reading) ==
    /\ t \in live /\ (reading => ~reader)
    /\ \/ /\ FreeFds(t) # {} /\ reader' = (reader \/ reading)
          /\ TakeFd(t, Entry(IF reading THEN "stream_rd" ELSE "stream_wr", 0, NULL))
       \/ FreeFds(t) = {} /\ UNCHANGED <<fds, reader>>
    /\ UNCHANGED <<live, obj, mtx_owner, held, qh, side>>

\* v_file_dup, and v_file_open on the console: a plain device is shared.
v_file_dup(t, fd) ==
    /\ IsOpen(t, fd) /\ ~HasClose(fds[t][fd]) /\ FreeFds(t) # {}
    /\ TakeFd(t, fds[t][fd])
    /\ UNCHANGED <<live, obj, mtx_owner, held, qh, side, reader>>

v_file_dup2(t, old, new) ==
    /\ IsOpen(t, old) /\ ~HasClose(fds[t][old]) /\ ~HasClose(fds[t][new])
    /\ fds' = [fds EXCEPT ![t][new] = fds[t][old]]
    /\ UNCHANGED <<live, obj, mtx_owner, held, qh, side, reader>>

\* v_mtx_lock and v_mtx_unlock, where they do not wait (Kernel has the rest).
v_mtx_lock(t, fd) ==
    /\ IsOpen(t, fd) /\ fds[t][fd].ops = "mtx" /\ mtx_owner[fds[t][fd].priv] = NULL
    /\ mtx_owner' = [mtx_owner EXCEPT ![fds[t][fd].priv] = t]
    /\ held' = [held EXCEPT ![t] = @ \cup {fds[t][fd].priv}]
    /\ UNCHANGED <<fds, live, obj, qh, side, reader>>

v_mtx_unlock(t, fd) ==
    /\ IsOpen(t, fd) /\ fds[t][fd].ops = "mtx" /\ mtx_owner[fds[t][fd].priv] = t
    /\ mtx_owner' = [mtx_owner EXCEPT ![fds[t][fd].priv] = NULL]
    /\ held' = [held EXCEPT ![t] = @ \ {fds[t][fd].priv}]
    /\ UNCHANGED <<fds, live, obj, qh, side, reader>>

Next ==
    \/ \E t \in Owner, fd \in Fd : v_file_close(t, fd)
    \/ \E t \in Owner : Exit(t)
    \/ \E t \in Owner : Create(t)
    \/ \E t \in Owner, kind \in {"sem", "mtx"}, name \in Name, create \in BOOLEAN :
         OpenNamed(t, kind, name, create)
    \/ \E t \in Owner, spsc \in BOOLEAN, flags \in Direction : v_queue_open(t, spsc, flags)
    \/ \E t \in Owner, reading \in BOOLEAN : OpenStream(t, reading)
    \/ \E t \in Owner, fd \in Fd : v_file_dup(t, fd)
    \/ \E t \in Owner, old \in Fd, new \in Fd : v_file_dup2(t, old, new)
    \/ \E t \in Owner, fd \in Fd : v_mtx_lock(t, fd)
    \/ \E t \in Owner, fd \in Fd : v_mtx_unlock(t, fd)

Spec == Init /\ [][Next]_fd_vars
------------------------------------------------------------------------------
(* Properties *)

\* The descriptors, of all tasks, that stand for something.
Standing(ops, priv) ==
    {x \in Owner \X Fd : fds[x[1]][x[2]].ops = ops /\ fds[x[1]][x[2]].priv = priv}

\* A named object is counted by exactly the descriptors open on it: it is neither
\* reclaimed under one of them nor kept when the last is closed or its task dies.
ObjectRefsExact ==
    \A k \in {"sem", "mtx"}, o \in Obj :
      /\ obj[k][o].refcount = Cardinality(Standing(k, o))
      /\ obj[k][o].used <=> obj[k][o].refcount > 0

\* A descriptor reaches the object of the name it was opened with, and two tasks
\* that open one name meet in one object.
SameNameMeets ==
    \A k \in {"sem", "mtx"}, o \in Obj :
      /\ \A x \in Standing(k, o) : fds[x[1]][x[2]].name = obj[k][o].name
      /\ \A p \in Obj \ {o} : obj[k][o].used /\ obj[k][p].used => obj[k][o].name # obj[k][p].name

\* A queue handle belongs to one descriptor, a side of a single-producer queue is
\* taken by one handle, and a stream has one reader: no side stays taken when its
\* descriptor is gone (q_fd_close, stream_close).
SidesExact ==
    /\ \A h \in QHandle : Cardinality(Standing("queue", h)) = IF qh[h].used THEN 1 ELSE 0
    /\ \A d \in {"rd", "wr"} :
         Cardinality({h \in QHandle : qh[h].spsc /\ d \in qh[h].flags}) = IF d \in side THEN 1 ELSE 0
    /\ Cardinality(Standing("stream_rd", 0)) = IF reader THEN 1 ELSE 0

\* A mutex a task holds is a mutex that exists and that says so (ipc_mtx_close
\* does not look whether the mutex is held).
HeldMutexLives ==
    \A t \in Owner, o \in Obj : o \in held[t] => obj["mtx"][o].used /\ mtx_owner[o] = t

\* What descriptors stand for is counted, named and owned exactly, over any sequence of
\* opens, duplicates, closes and deaths
\* (v_file_open, v_file_dup2, v_file_close, v_fd_close_all).
FilesSound == ObjectRefsExact /\ SameNameMeets /\ SidesExact /\ HeldMutexLives
==============================================================================
