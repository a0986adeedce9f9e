------------------------------ MODULE MCServices ------------------------------
(***************************************************************************)
(* Instances for TLC of the kernel's services: descriptors and named       *)
(* objects, the console, the heaps, the shell's editor and text            *)
(* algorithms, formatted output, the queue that descriptors name, the      *)
(* queued topics of the bus, and those who consume them.  A behaviour runs *)
(* one of them, the last three in their own variables, the others in v1,   *)
(* v2, ...                                                                 *)
(***************************************************************************)
EXTENDS Mpmc, Bus, BusWorker, TLC

CONSTANTS td, to, sa, sb, p1, p2

VARIABLES
    part,   \* the component this behaviour runs
    v1, v2, v3, v4, v5, v6, v7, v8, v9, v10, v11, v12, v13, v14

other == <<v1, v2, v3, v4, v5, v6, v7, v8, v9, v10, v11, v12, v13, v14>>
MCVars == <<part, other, vars, bus_vars, bw_vars>>

Symmetry == Permutations({p1, p2})

TopicSet == {td, to}
SubSet == {sa, sb}
ProducerSet == {p1, p2}
OverwriteSet == {to}
NoReserve == [t \in TopicSet |-> 0]

\* Two producers and two readers of the overwrite topic; one reader may leave.
Crowd == [topics |-> {to}, producers |-> 2, topicOf |-> [s \in SubSet |-> to],
          reserve |-> NoReserve, peek |-> TRUE, leave |-> {sa}, calls |-> 2]

\* A reserved block and a reader on each topic.
Loans == [topics |-> TopicSet, producers |-> 1,
          topicOf |-> [s \in SubSet |-> IF s = sa THEN to ELSE td],
          reserve |-> [t \in TopicSet |-> 1], peek |-> FALSE, leave |-> {}, calls |-> 3]

\* One producer, and readers that look in place.
Views == [topics |-> {to}, producers |-> 1, topicOf |-> [s \in SubSet |-> to],
          reserve |-> NoReserve, peek |-> TRUE, leave |-> {}, calls |-> 3]

BusUses == {Crowd, Loans, Views}

Owners == {"t", "u"}
Descriptors == {0, 1}
StdSet == {0}
NameSet == {"a"}
ObjSet == {1, 2}

F == INSTANCE Files WITH
    Owner <- Owners, Fd <- Descriptors, Std <- StdSet, Name <- NameSet, Obj <- ObjSet,
    QHandle <- ObjSet, CloseLocked <- FALSE, NULL <- NULL, fds <- v1, live <- v2, obj <- v3,
    mtx_owner <- v4, held <- v5, qh <- v6, side <- v7, reader <- v8

Texts == {<<"x">>, <<"cr">>, <<"x", "nl">>}

C == INSTANCE Console WITH
    TxSize <- 4, RxSize <- 2, ChunkSize <- 2, Text <- Texts, con_tx <- v1, con_tx_head <- v2,
    con_tx_tail <- v3, con_tx_sem <- v4, con_last <- v5, con_writer_seen <- v6, pump <- v7,
    con_head <- v8, con_tail <- v9, con_rx_sem <- v10, typist <- v11, pending <- v12,
    wire_last <- v13

Cap == INSTANCE Capture WITH
    CapSize <- 6, CutLen <- 2, cap <- v1

HeapAsks == {10, 16}
HeapAligns == {<<4, 1>>}

H == INSTANCE Heap WITH
    Start <- 5, Size <- 18, HDR <- 2, MIN <- 1, UNIT <- 4, Word <- 128, SlLog2 <- 1,
    Asks <- HeapAsks, Aligns <- HeapAligns, algo <- v1, hdr <- v2, lists <- v3, allocation_size <- v4,
    allocation_count <- v5, granted <- v6

StackPointers == {0, 18}
TaskAsks == {1, 4}

TH == INSTANCE TaskHeap WITH
    heap_base <- 8, block_end <- 22, THDR <- 2, ALIGN <- 2, MIN <- 2, Word <- 64,
    LiveSp <- StackPointers, Sizes <- TaskAsks, theap <- v1, heap_brk <- v2, live <- v3

Names == <<<<"x", "y", "x">>, <<"x", "x">>, <<"x", "y", "y">>, <<"y">>>>
Entries_ == <<[name |-> <<"x", "Y">>, dir |-> TRUE], [name |-> <<"X">>, dir |-> FALSE]>>

LettersOnly == {"x"}
LettersAndSpaces == {"x", " "}
AheadSet == {"CR", "^C"}

\* An editor that remembers two lines, and one that reads several words in a line.
L == INSTANCE LineEditor WITH
    CMD_MAX_LEN <- 4, CMD_BUFFER_SIZE <- 2, FIFO_SIZE <- 2, Typed <- LettersOnly,
    Ahead <- AheadSet, Commands <- Names, Entries <- Entries_, NAME_SHOWN <- 9, line <- v1,
    pos <- v2, hist <- v3, hist_head <- v4, hist_count <- v5, hist_pos <- v6, esc <- v7,
    esc_num <- v8, prev_cr <- v9, input <- v10, row <- v11, col <- v12, mode <- v13, past <- v14

W == INSTANCE LineEditor WITH
    CMD_MAX_LEN <- 4, CMD_BUFFER_SIZE <- 1, FIFO_SIZE <- 2, Typed <- LettersAndSpaces,
    Ahead <- AheadSet, Commands <- Names, Entries <- Entries_, NAME_SHOWN <- 9, line <- v1,
    pos <- v2, hist <- v3, hist_head <- v4, hist_count <- v5, hist_pos <- v6, esc <- v7,
    esc_num <- v8, prev_cr <- v9, input <- v10, row <- v11, col <- v12, mode <- v13, past <- v14

Digits_ == [c \in {"a", "dq", "sq"} |-> CASE c = "a" -> 1 [] c = "dq" -> 2 [] OTHER -> 3]

X == INSTANCE ShellText WITH
    CMD_MAX_LEN <- 6, SHELL_MAX_ARGV <- 2, LONG_MAX <- 31, Alphabet <- {"a", "sp", "dq", "sq"},
    Digits <- Digits_, Parts <- {"b", "c", ".", ".."}, BLOCK <- 2, line <- v1, mem <- v2,
    pc <- v3, p <- v4, o <- v5, q <- v6, argv <- v7, cwd <- v8

Pieces_ == {<<"a">>, <<"%", "d">>, <<"%", "0", "4", "x">>, <<"%", "s">>, <<"%", "5", "u">>,
            <<"%", "l", "l", "d">>, <<"%", "c">>, <<"%", "%">>, <<"%", ".", "2", "f">>,
            <<"%", "X">>, <<"%", "x">>, <<"%", "q">>, <<"%", "p">>, <<"%">>}
Long == [d |-> -120, u |-> 907, x |-> 43, c |-> <<"z">>, s |-> <<"h", "e", "l", "l", "o">>,
         f |-> [num |-> -31, den |-> 8]]
Short == [d |-> 3, u |-> 0, x |-> 255, c |-> <<"z">>, s |-> <<>>, f |-> [num |-> 1, den |-> 16]]

FM == INSTANCE Format WITH
    Pieces <- Pieces_, MaxPieces <- 2, Args <- {Long, Short}, OutBuf <- 5, One <- 5, Chunk <- 3,
    Sizes <- {1, 2, 3, 6, 9}, arg <- v1, fmt <- v2, pieces <- v3, p <- v4, chunk <- v5,
    out <- v6, sent <- v7, total <- v8, failed <- v9

ASSUME L!EditorBounds /\ W!EditorBounds
ASSUME H!HeapBounds
ASSUME CbBounds

\* The variables a component has no use for.
Above1 == <<v2, v3, v4, v5, v6, v7, v8, v9, v10, v11, v12, v13, v14>>
Above3 == <<v4, v5, v6, v7, v8, v9, v10, v11, v12, v13, v14>>
Above6 == <<v7, v8, v9, v10, v11, v12, v13, v14>>
Above8 == <<v9, v10, v11, v12, v13, v14>>
Above9 == <<v10, v11, v12, v13, v14>>
Above13 == <<v14>>

\* Where the queue only stands by it is one that drops, and the bus one with a crowd.
MCInit ==
    /\ \/ /\ part = "files" /\ F!Init
          /\ v9 = 0 /\ v10 = 0 /\ v11 = 0 /\ v12 = 0 /\ v13 = 0 /\ v14 = 0
       \/ part = "console" /\ C!Init /\ v14 = 0
       \/ /\ part = "capture" /\ Cap!Init
          /\ v2 = 0 /\ v3 = 0 /\ v4 = 0 /\ v5 = 0 /\ v6 = 0 /\ v7 = 0 /\ v8 = 0 /\ v9 = 0
          /\ v10 = 0 /\ v11 = 0 /\ v12 = 0 /\ v13 = 0 /\ v14 = 0
       \/ /\ part = "heap" /\ H!Init
          /\ v7 = 0 /\ v8 = 0 /\ v9 = 0 /\ v10 = 0 /\ v11 = 0 /\ v12 = 0 /\ v13 = 0 /\ v14 = 0
       \/ /\ part = "theap" /\ TH!Init
          /\ v4 = 0 /\ v5 = 0 /\ v6 = 0 /\ v7 = 0 /\ v8 = 0 /\ v9 = 0 /\ v10 = 0 /\ v11 = 0
          /\ v12 = 0 /\ v13 = 0 /\ v14 = 0
       \/ part = "editor" /\ L!Init
       \/ part = "words" /\ W!Init
       \/ /\ part = "text" /\ X!Init
          /\ v9 = 0 /\ v10 = 0 /\ v11 = 0 /\ v12 = 0 /\ v13 = 0 /\ v14 = 0
       \/ /\ part = "format" /\ FM!Init
          /\ v10 = 0 /\ v11 = 0 /\ v12 = 0 /\ v13 = 0 /\ v14 = 0
       \/ /\ part \in {"mpmc", "bus", "worker"}
          /\ v1 = 0 /\ v2 = 0 /\ v3 = 0 /\ v4 = 0 /\ v5 = 0 /\ v6 = 0 /\ v7 = 0 /\ v8 = 0
          /\ v9 = 0 /\ v10 = 0 /\ v11 = 0 /\ v12 = 0 /\ v13 = 0 /\ v14 = 0
    /\ Init /\ (part # "mpmc" => policy = "drop")
    /\ CbInit /\ BusInit /\ (part # "bus" => use = Crowd)

filesNext == part = "files" /\ F!Next /\ UNCHANGED <<part, vars, bus_vars, bw_vars, Above8>>
consoleNext == part = "console" /\ C!Next /\ UNCHANGED <<part, vars, bus_vars, bw_vars, Above13>>
captureNext == part = "capture" /\ Cap!Next /\ UNCHANGED <<part, vars, bus_vars, bw_vars, Above1>>
heapNext == part = "heap" /\ H!Next /\ UNCHANGED <<part, vars, bus_vars, bw_vars, Above6>>
theapNext == part = "theap" /\ TH!Next /\ UNCHANGED <<part, vars, bus_vars, bw_vars, Above3>>
editorNext == part = "editor" /\ L!Next /\ UNCHANGED <<part, vars, bus_vars, bw_vars>>
wordsNext == part = "words" /\ W!Next /\ UNCHANGED <<part, vars, bus_vars, bw_vars>>
textNext == part = "text" /\ X!Next /\ UNCHANGED <<part, vars, bus_vars, bw_vars, Above8>>
formatNext == part = "format" /\ FM!Next /\ UNCHANGED <<part, vars, bus_vars, bw_vars, Above9>>
mpmcNext == part = "mpmc" /\ Next /\ UNCHANGED <<part, other, bus_vars, bw_vars>>
busNext == part = "bus" /\ BusNext /\ UNCHANGED <<part, vars, other, bw_vars>>
workerNext == part = "worker" /\ CbNext /\ UNCHANGED <<part, vars, other, bus_vars>>

MCNext ==
    \/ filesNext \/ consoleNext \/ captureNext \/ heapNext \/ theapNext
    \/ editorNext \/ wordsNext \/ textNext \/ formatNext \/ mpmcNext \/ busNext \/ workerNext

MCSpec == MCInit /\ [][MCNext]_MCVars

-----------------------------------------------------------------------------
(* Files *)

\* What descriptors stand for is counted, named and owned exactly, over any sequence of
\* opens, duplicates, closes and deaths
\* (v_file_open, v_file_dup2, v_file_close, v_fd_close_all).
FilesSound == part = "files" => F!FilesSound

(* LineEditor *)

\* The terminal shows the line being edited, the history gives back the lines submitted,
\* and completion only ever adds what was meant (shell_poll, hist_at, sh_complete).
EditorSound ==
    /\ [](/\ part = "editor" => L!ScreenTrue /\ L!HistoryExact
          /\ part = "words" => W!ScreenTrue /\ W!HistoryExact)
    /\ [][/\ part = "editor" => L!CompletionStep
          /\ part = "words" => W!CompletionStep]_MCVars

(* ShellText *)

\* Each text algorithm computes its reference, for every input within the bounds
\* (shell_tokenize, sh_num, sh_path, cmd_tail).
TextExact == part = "text" => X!TextExact

(* Format *)

\* The four formatters produce the expansion of the format, cut where their buffer
\* ends and nowhere else, and numbers read back as what they were (vaprint_fmt_buf,
\* vaprint_fmt, v_panic_vprintf, printf_fd).
FormatExact == part = "format" => FM!FormatExact

(* Console and Capture *)

\* What writers hand in goes out once, in order, with its newlines cooked, neither side
\* sleeps on bytes, and a capture that was cut says so, or holds nothing where the heap
\* had no room for it (console_write, v_console_writer_step, capture_write).
OutputSound ==
    /\ part = "console" => C!ConsoleSound
    /\ part = "capture" => Cap!CaptureHonest

(* Heap and TaskHeap *)

\* Over any sequence of calls, of the kernel's heap and of a task's own, the blocks tile
\* the arena, free neighbours are merged, the index knows exactly the free blocks and
\* answers with one that fits, and a second free is seen (v_malloc, v_free, malloc,
\* realloc, free).
HeapsSound ==
    /\ part = "heap" => H!HeapSound
    /\ part = "theap" => TH!TaskHeapSound
=============================================================================
