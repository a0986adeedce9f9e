------------------------------- MODULE PbusMgr -------------------------------
(***************************************************************************)
(* The I2C and SPI bus managers (portable/armv7e-m/pbus_hw.c): the worker  *)
(* that runs the transfer the arbiter started, the DMA read with its       *)
(* completion interrupt, the deadline, and the recovery of the bus.        *)
(*                                                                         *)
(* The arbiter (PeriphBus) starts one transfer at a time; here it is the   *)
(* number of the transfer that is on.  The hardware is external: a call    *)
(* of the HAL succeeds or fails, and a DMA stream completes or never does. *)
(***************************************************************************)
EXTENDS Integers

CONSTANTS
    SpiDev,         \* the devices of an SPI bus, with their settings
    Xfers           \* bound: transfers are numbered in turn, modulo this

Xfer == 0..(Xfers - 1)
NoXfer == -1        \* no transfer, no device

VARIABLES
    kind,               \* v_pbus_mgr_t.kind
    m_x, dev, read,     \* the pending transfer, its SPI device, whether DMA can read it
    dma, kick,          \* a DMA read is in flight; the worker's semaphore
    spi_cur,            \* the device the SPI is set up for
    m_worker,             \* where v_pbus_mgr_step is
    bus,                \* the arbiter: the transfer that is on
    last,               \* the transfer before it
    stream,             \* external: the transfer the DMA stream is running
    setup,              \* external: the settings in the SPI registers
    ran,                \* ghost: the transfer the worker last took up
    mixed               \* ghost: a completion ended another transfer, or found none

mgrVars == <<m_x, dev, read, dma, kick, spi_cur>>
hwVars == <<stream, setup>>
mgr_all == <<kind, mgrVars, m_worker, bus, last, hwVars, ran, mixed>>

\* There are transfer numbers to use.
MgrBounds == Xfers \in Nat \ {0}

\* mgr_init, and v_pbus_i2c_attach or v_pbus_spi_attach.
MgrInit ==
    /\ kind \in {"I2C", "SPI"}
    /\ m_x = NoXfer /\ dev = NoXfer /\ read = FALSE /\ dma = FALSE /\ kick = 0
    /\ spi_cur = NoXfer /\ m_worker = "take" /\ bus = NoXfer /\ last = Xfers - 1
    /\ stream = NoXfer /\ setup = NoXfer /\ ran = NoXfer /\ mixed = FALSE

\* dispatch() calls the start hook, from a task or an interrupt.
mgr_start ==
    /\ bus = NoXfer
    /\ bus' = (last + 1) % Xfers /\ last' = bus' /\ m_x' = bus'
    /\ \/ kind = "I2C" /\ read' \in BOOLEAN /\ UNCHANGED dev
       \/ kind = "SPI" /\ dev' \in SpiDev /\ UNCHANGED read
    /\ kick' = 1
    /\ UNCHANGED <<kind, dma, spi_cur, m_worker, hwVars, mixed, ran>>

\* finish() for transfer n: the manager is free, and v_pbus_done_isr releases
\* the bus.
finish(n) ==
    /\ m_x' = NoXfer
    /\ bus' = NoXfer
    /\ mixed' = (mixed \/ bus # n \/ m_x # n)

Goes(from, to) == m_worker = from /\ m_worker' = to

MayBegin == m_x # NoXfer /\ ~dma

\* The take of the kick: woken with a transfer to run, or not.
TakeKick ==
    /\ m_worker = "take" /\ kick = 1 /\ kick' = 0
    /\ m_worker' = IF MayBegin THEN "run" ELSE "check"
    /\ ran' = IF MayBegin THEN m_x ELSE ran
    /\ UNCHANGED <<kind, m_x, dev, read, dma, spi_cur, bus, last, hwVars, mixed>>

\* The take times out: the worker looks at the deadline.
TakeTimesOut ==
    /\ Goes("take", "check") /\ kick = 0
    /\ UNCHANGED <<kind, mgrVars, bus, last, hwVars, mixed, ran>>

\* i2c_run with a register read: dma is set before the stream is started.
ArmDma ==
    /\ kind = "I2C" /\ read /\ Goes("run", "dma")
    /\ dma' = TRUE
    /\ UNCHANGED <<kind, m_x, dev, read, kick, spi_cur, bus, last, hwVars, mixed, ran>>

StartDma ==
    /\ Goes("dma", "check")
    /\ stream' = m_x
    /\ UNCHANGED <<kind, mgrVars, bus, last, setup, mixed, ran>>

DmaRefused ==
    /\ Goes("dma", "recover")
    /\ dma' = FALSE
    /\ UNCHANGED <<kind, m_x, dev, read, kick, spi_cur, bus, last, hwVars, mixed, ran>>

\* i2c_run with a blocking call of the HAL.
i2c_run ==
    /\ kind = "I2C" /\ ~read
    /\ Goes("run", "finish") \/ Goes("run", "recover")
    /\ UNCHANGED <<kind, mgrVars, bus, last, hwVars, mixed, ran>>

\* MUTANT: a failed transfer leaves spi_cur alone.
spi_run_Kept ==
    /\ kind = "SPI" /\ Goes("run", "finish")
    /\ setup' \in {dev, NoXfer}
    /\ spi_cur' = dev
    /\ UNCHANGED <<kind, m_x, dev, read, dma, kick, bus, last, stream, mixed, ran>>

\* spi_run: set up for the device if it is not already, then transfer.  What a
\* failed set-up or a failed transfer leaves in the registers is unknown.
spi_run ==
    /\ kind = "SPI" /\ Goes("run", "finish")
    /\ \/ spi_cur' = dev /\ setup' = IF spi_cur = dev THEN setup ELSE dev
       \/ spi_cur' = NoXfer /\ setup' = NoXfer
    /\ UNCHANGED <<kind, m_x, dev, read, dma, kick, bus, last, stream, mixed, ran>>

\* i2c_recover: reset the peripheral and clock the bus free.
i2c_recover ==
    /\ Goes("recover", "finish")
    /\ UNCHANGED <<kind, mgrVars, bus, last, hwVars, mixed, ran>>

WorkerFinish ==
    /\ Goes("finish", "check")
    /\ finish(ran)
    /\ UNCHANGED <<kind, dev, read, dma, kick, spi_cur, last, hwVars, ran>>

\* MUTANT: the interrupt does not look whether the deadline failed the read.
Mine_Always == TRUE

Mine == dma

\* i2c_dma_done, the DMA-complete interrupt.
i2c_dma_done ==
    /\ stream # NoXfer
    /\ stream' = NoXfer
    /\ \/ /\ Mine /\ dma' = FALSE
          /\ finish(stream)
       \/ ~Mine /\ UNCHANGED <<dma, m_x, bus, mixed>>
    /\ UNCHANGED <<kind, dev, read, kick, spi_cur, m_worker, last, setup, ran>>

\* The end of a step before the deadline, or with nothing in flight.
InTime ==
    /\ Goes("check", "take")
    /\ UNCHANGED <<kind, mgrVars, bus, last, hwVars, mixed, ran>>

\* MUTANT: the deadline is not checked.
Overdue_Never == FALSE

\* The deadline of a read in flight has passed.
Overdue == dma

TakeBack ==
    /\ Overdue /\ Goes("check", "stop")
    /\ dma' = FALSE
    /\ UNCHANGED <<kind, m_x, dev, read, kick, spi_cur, bus, last, hwVars, mixed, ran>>

\* i2c_dma_stop.
i2c_dma_stop ==
    /\ Goes("stop", "recover")
    /\ stream' = NoXfer
    /\ UNCHANGED <<kind, mgrVars, bus, last, setup, mixed, ran>>

MgrNext ==
    \/ mgr_start
    \/ TakeKick
    \/ TakeTimesOut
    \/ ArmDma
    \/ StartDma
    \/ DmaRefused
    \/ i2c_run
    \/ spi_run
    \/ i2c_recover
    \/ WorkerFinish
    \/ i2c_dma_done
    \/ InTime
    \/ TakeBack
    \/ i2c_dma_stop

\* The worker is a task that keeps being scheduled, and time passes: it does not
\* find itself in time for ever.  Nothing is assumed of the DMA.
MgrFairness ==
    /\ WF_mgr_all(TakeKick) /\ WF_mgr_all(TakeTimesOut) /\ WF_mgr_all(ArmDma \/ i2c_run \/ spi_run)
    /\ WF_mgr_all(StartDma \/ DmaRefused) /\ WF_mgr_all(i2c_recover) /\ WF_mgr_all(WorkerFinish)
    /\ WF_mgr_all(InTime) /\ SF_mgr_all(TakeBack) /\ WF_mgr_all(i2c_dma_stop)

MgrSpec == MgrInit /\ [][MgrNext]_mgr_all /\ MgrFairness
------------------------------------------------------------------------------
(* Properties *)

\* A completion ends the transfer it belongs to: neither a late DMA interrupt nor
\* the deadline ends the next one, and m->x is there when the interrupt reads its
\* length (i2c_dma_done, v_pbus_mgr_step).
OwnCompletion ==
    /\ ~mixed
    /\ dma => m_x # NoXfer /\ m_x = bus
    /\ stream # NoXfer => stream = bus

\* When spi_run skips the set-up the registers do hold the settings of the
\* device, whatever failed before.
SetupTrue == spi_cur # NoXfer => setup = spi_cur

On(n) == bus = n

\* Every transfer the arbiter starts ends, even when its DMA never completes.
TransferEnds == \A n \in Xfer : On(n) ~> ~On(n)

\* A completion belongs to its transfer, and cached set-up is what the registers hold
\* (v_pbus_mgr_step, i2c_dma_done, spi_run).
ManagerSound == OwnCompletion /\ SetupTrue
==============================================================================
