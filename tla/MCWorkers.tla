------------------------------ MODULE MCWorkers ------------------------------
(***************************************************************************)
(* Instances for TLC of the parts in which one task does the work of       *)
(* another and must get to it: the file system worker, byte streams, the   *)
(* peripheral bus's manager, the shell and its helper, the log; and the    *)
(* fifo by which one task feeds another.  A behaviour runs one of them;    *)
(* the shell and the log do so in v1, v2, ..., the others in their own     *)
(* variables.                                                              *)
(***************************************************************************)
EXTENDS Spsc, VfsWorker, Stream, PbusMgr, TLC

CONSTANTS ua, ub, t1, t2

VARIABLES
    part,   \* the component this behaviour runs
    v1, v2, v3, v4, v5, v6, v7, v8, v9, v10, v11, v12, v13, v14,
    v15, v16, v17, v18, v19, v20

other == <<v1, v2, v3, v4, v5, v6, v7, v8, v9, v10, v11, v12, v13,
           v14, v15, v16, v17, v18, v19, v20>>
MCVars == <<part, other, fifo_vars, vfs_vars, stream_vars, mgr_all>>

E == INSTANCE ShellExec WITH
    FreeFds <- 4, CapChunks <- 2, MaxChunks <- 3, HelperRuns <- TRUE, pc <- v1, cmd <- v2,
    redir <- v3, fd1 <- v4, held <- v5, qfd <- v6, cap_err <- v7, rc <- v8, n <- v9, hpc <- v10,
    hfd1 <- v11, hheld <- v12, hn <- v13, req <- v14, done <- v15, cap <- v16, file <- v17,
    printed <- v18, lost <- v19, cap_buf <- v20

G == INSTANCE LogBuffer WITH
    Task <- {t1, t2}, Cap <- 1, Messages <- 3, Consoles <- {"direct", "dma"}, Failures <- 1,
    Interrupted <- FALSE, Starved <- FALSE, RING_SIZE <- 2, Word <- 4, storage <- v1, current <- v2,
    size_to_read <- v3, read_lock <- v4, pc <- v5, mine <- v6, shows <- v7, console <- v8,
    dma <- v9, kring <- v10, khead <- v11, ktail <- v12, next <- v13, taken <- v14, out <- v15,
    read <- v16, failed <- v17

ASSUME G!LogBounds /\ VfsBounds /\ MgrBounds /\ StreamBounds

\* The variables the log has no use for.
Above17 == <<v18, v19, v20>>

\* The parts that have variables of their own.
OwnVars == {"vfs", "stream", "mgr", "spsc"}

\* Where the fifo only stands by it is one that drops; so is a stream one over USB, and a
\* manager one of I2C.
MCInit ==
    /\ \/ part = "shell" /\ E!Init
       \/ part = "log" /\ G!Init /\ v18 = 0 /\ v19 = 0 /\ v20 = 0
       \/ /\ part \in OwnVars
          /\ v1 = 0 /\ v2 = 0 /\ v3 = 0 /\ v4 = 0 /\ v5 = 0 /\ v6 = 0 /\ v7 = 0 /\ v8 = 0
          /\ v9 = 0 /\ v10 = 0 /\ v11 = 0 /\ v12 = 0 /\ v13 = 0 /\ v14 = 0 /\ v15 = 0 /\ v16 = 0
          /\ v17 = 0 /\ v18 = 0 /\ v19 = 0 /\ v20 = 0
    /\ Init /\ (part # "spsc" => ~overwriting)
    /\ VfsInit
    /\ StreamInit /\ (part # "stream" => backend = "cdc")
    /\ MgrInit /\ (part # "mgr" => kind = "I2C")

vfsOnly == UNCHANGED <<part, other, fifo_vars, stream_vars, mgr_all>>
streamOnly == UNCHANGED <<part, other, fifo_vars, vfs_vars, mgr_all>>
mgrOnly == UNCHANGED <<part, other, fifo_vars, vfs_vars, stream_vars>>
spscOnly == UNCHANGED <<part, other, vfs_vars, stream_vars, mgr_all>>
shellOnly == UNCHANGED <<part, fifo_vars, vfs_vars, stream_vars, mgr_all>>
logOnly == UNCHANGED <<part, fifo_vars, vfs_vars, stream_vars, mgr_all, Above17>>

vfsNext == part = "vfs" /\ VfsNext /\ vfsOnly
streamNext == part = "stream" /\ StreamNext /\ streamOnly
mgrNext == part = "mgr" /\ MgrNext /\ mgrOnly
spscNext == part = "spsc" /\ Next /\ spscOnly
shellNext == part = "shell" /\ E!Next /\ shellOnly
logNext == part = "log" /\ G!Next /\ logOnly

MCNext == vfsNext \/ streamNext \/ mgrNext \/ spscNext \/ shellNext \/ logNext

\* A behaviour runs one component throughout, so the fairness of a disjunction of
\* steps of different components is the fairness of each of them; the lines below are
\* the conjuncts of the components' own Fairness, taken together that way.
Fairness ==
    /\ WF_MCVars(\/ /\ part = "vfs"
                    /\ TakeWork \/ PickRequest \/ Execute \/ PostResult \/ GiveDone
                    /\ vfsOnly
                 \/ /\ part = "stream"
                    /\ \/ SenderLooks \/ SenderTakes \/ SenderTimesOut \/ SenderStarts
                       \/ SenderEnds \/ SenderFrees
                    /\ streamOnly
                 \/ part = "mgr" /\ TakeKick /\ mgrOnly
                 \/ part = "shell" /\ E!ShellProgress /\ shellOnly
                 \/ part = "log" /\ G!LogStep(t1) /\ logOnly)
    /\ WF_MCVars(\/ part = "vfs" /\ (\E ok \in BOOLEAN : FsAnswers(ok)) /\ vfsOnly
                 \/ part = "stream" /\ (\E irq \in BOOLEAN : DmaDone(irq)) /\ streamOnly
                 \/ part = "mgr" /\ TakeTimesOut /\ mgrOnly
                 \/ part = "shell" /\ E!HelperStep /\ shellOnly
                 \/ part = "log" /\ G!LogStep(t2) /\ logOnly)
    /\ WF_MCVars(\/ part = "vfs" /\ PrivLeaves /\ vfsOnly
                 \/ part = "mgr" /\ (ArmDma \/ i2c_run \/ spi_run) /\ mgrOnly
                 \/ part = "log" /\ G!Runs(t1) /\ G!FlushStep(t1) /\ logOnly)
    /\ WF_MCVars(\/ part = "vfs" /\ v_vfs_wait(ua) /\ vfsOnly
                 \/ part = "mgr" /\ (StartDma \/ DmaRefused) /\ mgrOnly
                 \/ part = "log" /\ G!Runs(t2) /\ G!FlushStep(t2) /\ logOnly)
    /\ WF_MCVars(\/ part = "vfs" /\ v_vfs_wait(ub) /\ vfsOnly
                 \/ part = "mgr" /\ i2c_recover /\ mgrOnly
                 \/ part = "log" /\ G!dma_tx_complete_callback /\ logOnly)
    /\ WF_MCVars(part = "mgr" /\ WorkerFinish /\ mgrOnly)
    /\ WF_MCVars(part = "mgr" /\ InTime /\ mgrOnly)
    /\ WF_MCVars(part = "mgr" /\ i2c_dma_stop /\ mgrOnly)
    /\ SF_MCVars(\/ part = "vfs" /\ WorkerEnters /\ vfsOnly
                 \/ part = "mgr" /\ TakeBack /\ mgrOnly
                 \/ part = "log" /\ G!Runs(t1) /\ G!LogGuard(t1) /\ logOnly)
    /\ SF_MCVars(part = "log" /\ G!Runs(t2) /\ G!LogGuard(t2) /\ logOnly)

MCSpec == MCInit /\ [][MCNext]_MCVars /\ Fairness

-----------------------------------------------------------------------------
(* ShellExec *)

\* Whatever a command meets, its output is where it was sent or was dropped by the capture
\* device, its handles are returned
\* and the helper owes nothing when the prompt is back (shell_exec, via_helper,
\* shell_helper_run).
CommandsSound == part = "shell" => E!CommandsSound

\* Every command returns to the prompt: neither task waits for the other for
\* ever.
CommandReturns ==
    (part = "shell" /\ ~E!AtPrompt) ~> (part = "shell" /\ E!AtPrompt)

(* LogBuffer *)

\* The console and /dev/kmsg show accepted messages in order and once, whoever logs
\* and flushes (v_log, v_log_flush, v_kmsg_append).
LogExact == part = "log" => G!LogExact

\* The log makes progress: each message accepted is printed unless its own transfer was
\* refused or a refused one still holds the lock, and no logger waits for ever (v_log,
\* v_log_flush, idle_task_function).
LogProgress ==
    /\ (part = "log" /\ G!Unsettled # {}) ~> (part = "log" /\ (G!Unsettled = {} \/ G!Stuck))
    /\ \A t \in {t1, t2} : (part = "log" /\ G!Logging(t)) ~> (part = "log" /\ G!Idles(t))
=============================================================================
