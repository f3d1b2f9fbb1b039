------------------------------- MODULE XdmaRing -------------------------------
(***************************************************************************)
(* The AXI-DMA driver of projects/rfx_dmatests (axidma_example6.c) and its *)
(* client (test_example6.c): two rings of buffers, one for each direction, *)
(* shared without a lock by a kernel thread and a program. One semaphore   *)
(* lends the program one buffer at a time.                                 *)
(*                                                                         *)
(* A position has one writer. ring_read_next and ring_write_next read the  *)
(* other side's position before they write their own; a position that has  *)
(* moved in between only makes the answer "empty" or "full" pessimistic,   *)
(* so each of them is one step.                                            *)
(*                                                                         *)
(* External: the DMA engine, which ends a transfer well or with an error,  *)
(* and the FPGA behind it, which sends back what it gets (line).           *)
(***************************************************************************)
EXTENDS Integers, Sequences

CONSTANTS
  Size,      (* ring_size, for each direction                              *)
  Window,    (* messages the client sends ahead of those it has received   *)
  Faults,    (* the DMA engine may fail                                    *)
  MaxMsgs,   (* bound: messages in a behaviour                             *)
  None       (* no buffer                                                  *)

Dirs == {"tx", "rx"}

ASSUME XdmaAssumption ==
  /\ Size \in [Dirs -> Nat \ {0, 1}]
  /\ Window \in 1 .. Size["rx"] - 2
  /\ Faults \in BOOLEAN /\ MaxMsgs \in Nat /\ None \notin Nat

VARIABLES
  \* the driver: rings, memory and address of each buffer, semaphore, flags
  size, r_pos, w_pos, mem, addr, map_buffer, sem,
  state_streaming, state_has_txdata,
  \* the kernel threads: program counters, kthread_stop of the sender
  tpc, xpc, should_stop,
  \* the client: program counter, direction, buffers set up, buffer in hand and
  \* where it is mapped, next message, messages due; what the last poll said, and
  \* if a call has failed, which it only prints
  ppc, dir, done, held, data, counter, due, polled, failed,
  \* the FPGA; history: messages accepted and not sent, received and not read
  line, queued, ready

posVars    == <<size, r_pos, w_pos>>
bufVars    == <<mem, addr, map_buffer, sem>>
stateVars  == <<state_streaming, state_has_txdata, should_stop>>
threadVars == <<tpc, xpc>>
clientVars == <<ppc, dir, done, held, data, counter, due, polled, failed>>
queueVars  == <<line, queued, ready>>
vars == <<posVars, bufVars, stateVars, threadVars, clientVars, queueVars>>

-----------------------------------------------------------------------------

(* The next entry of the list, or its first.                               *)
After(d, i) == (i + 1) % Size[d]

(* What poll says: a buffer to read, a buffer to write.                    *)
HasReadNext(d)  == After(d, r_pos[d]) # w_pos[d]
HasWriteNext(d) == After(d, w_pos[d]) # r_pos[d]

-----------------------------------------------------------------------------
(* The sender, xdma6_stream_tx_fn.                                         *)
(* Mutant of TxLoop: the thread looks at nothing before it goes on.         *)
TxLoopOn ==
  /\ tpc = "loop" /\ tpc' = "next"
  /\ UNCHANGED <<posVars, bufVars, stateVars, xpc, clientVars, queueVars>>

TxLoop ==
  /\ tpc = "loop"
  /\ tpc' = IF state_streaming /\ ~should_stop THEN "next" ELSE "exit"
  /\ UNCHANGED <<posVars, bufVars, stateVars, xpc, clientVars, queueVars>>

(* Mutant of TxNext: the ring is read without looking for its writer.       *)
TxNextOver ==
  /\ tpc = "next"
  /\ r_pos' = [r_pos EXCEPT !["tx"] = After("tx", @)] /\ tpc' = "send"
  /\ UNCHANGED <<size, w_pos, bufVars, stateVars, xpc, clientVars, queueVars>>

TxNext ==
  /\ tpc = "next"
  /\ IF HasReadNext("tx")
       THEN r_pos' = [r_pos EXCEPT !["tx"] = After("tx", @)] /\ tpc' = "send"
       ELSE tpc' = "empty" /\ UNCHANGED r_pos
  /\ UNCHANGED <<size, w_pos, bufVars, stateVars, xpc, clientVars, queueVars>>

(* The transfer reads the buffer some time before it is complete.          *)
TxSent ==
  /\ tpc = "send" /\ tpc' = "next"
  /\ line' = Append(line, mem["tx"][r_pos["tx"]]) /\ queued' = Tail(queued)
  /\ UNCHANGED <<posVars, bufVars, stateVars, xpc, clientVars, ready>>

(* A transfer that is not accepted ends the thread; one that ends badly    *)
(* ends streaming.                                                         *)
TxFault ==
  /\ Faults /\ tpc = "send" /\ queued' = Tail(queued)
  /\ \/ tpc' = "exit" /\ UNCHANGED state_streaming
     \/ tpc' = "empty" /\ state_streaming' = FALSE
  /\ UNCHANGED <<posVars, bufVars, state_has_txdata, should_stop, xpc,
                 clientVars, line, ready>>

TxForget ==
  /\ tpc = "empty" /\ tpc' = "wait" /\ state_has_txdata' = FALSE
  /\ UNCHANGED <<posVars, bufVars, state_streaming, should_stop, xpc,
                 clientVars, queueVars>>

TxWoken ==
  /\ tpc = "wait" /\ (state_has_txdata \/ should_stop)
  /\ tpc' = "loop"
  /\ UNCHANGED <<posVars, bufVars, stateVars, xpc, clientVars, queueVars>>

(* The sender will not do anything unless it is called.                    *)
TxAsleep ==
  tpc \in {"off", "exit"} \/ (tpc = "wait" /\ ~state_has_txdata /\ ~should_stop)

-----------------------------------------------------------------------------
(* The receiver, xdma6_stream_rx_fn: it transfers to the write position,   *)
(* then moves it, wherever the reader is.                                  *)
RxLoop ==
  /\ xpc = "loop"
  /\ xpc' = IF state_streaming THEN "receive" ELSE "exit"
  /\ UNCHANGED <<posVars, bufVars, stateVars, tpc, clientVars, queueVars>>

RxReceived ==
  /\ xpc = "receive" /\ line # <<>>
  /\ xpc' = "move" /\ line' = Tail(line)
  /\ mem' = [mem EXCEPT !["rx"][w_pos["rx"]] = Head(line)]
  /\ UNCHANGED <<posVars, addr, map_buffer, sem, stateVars, tpc, clientVars,
                 queued, ready>>

RxMove ==
  /\ xpc = "move" /\ xpc' = "loop"
  /\ w_pos' = [w_pos EXCEPT !["rx"] = After("rx", @)]
  /\ ready' = Append(ready, mem["rx"][w_pos["rx"]])
  /\ UNCHANGED <<size, r_pos, bufVars, stateVars, tpc, clientVars, line,
                 queued>>

(* Not accepted, or a bad end.                                             *)
RxFault ==
  /\ Faults /\ xpc = "receive" /\ xpc' = "exit"
  /\ \/ UNCHANGED <<state_streaming, line>>
     \/ line # <<>> /\ line' = Tail(line) /\ state_streaming' = FALSE
  /\ UNCHANGED <<posVars, bufVars, state_has_txdata, should_stop, tpc,
                 clientVars, queued, ready>>

RxIdle == xpc \in {"off", "exit"} \/ (xpc = "receive" /\ line = <<>>)

-----------------------------------------------------------------------------
(* The ioctls. XDMA_REQ_RING allocates a ring; a ring that exists is kept. *)
ReqRing(d) ==
  /\ size' = [size EXCEPT ![d] = Size[d]]
  /\ IF size[d] = 0
       THEN /\ r_pos' = [r_pos EXCEPT ![d] = 0] /\ w_pos' = [w_pos EXCEPT ![d] = 1]
            /\ mem' = [mem EXCEPT ![d] = [i \in DOMAIN @ |-> 0]]
            /\ addr' = [addr EXCEPT ![d] = [i \in DOMAIN @ |-> None]]
       ELSE UNCHANGED <<r_pos, w_pos, mem, addr>>
  /\ UNCHANGED <<map_buffer, sem>>

(* Mutant of Lends: an empty ring is not noticed.                           *)
LendsAny(d, over) == sem = 1

(* Mutant of Lent: the wrong one of the two positions.                      *)
LentReader(d) == IF d = "tx" THEN r_pos[d] ELSE After(d, r_pos[d])

(* XDMA_REQ_BUFFER: which buffer a request is about, and if it succeeds.   *)
(* A request that finds nothing to read fails, and keeps the semaphore.    *)
Lent(d) == IF d = "tx" THEN w_pos[d] ELSE After(d, r_pos[d])
Lends(d, over) == sem = 1 /\ (d = "tx" \/ over \/ HasReadNext(d))

ReqBuffer(d, over) ==
  /\ IF Lends(d, over)
       THEN held' = Lent(d) /\ data' = addr[d][Lent(d)]
       ELSE UNCHANGED <<held, data>>
  /\ r_pos' = IF Lends(d, over) /\ d = "rx" THEN [r_pos EXCEPT ![d] = Lent(d)] ELSE r_pos
  /\ map_buffer' = IF sem = 1 THEN Lent(d) ELSE map_buffer
  /\ sem' = 0
  /\ UNCHANGED <<size, w_pos, mem, addr>>

(* XDMA_ENQ_BUFFER, before it raises state_has_txdata: the writer's        *)
(* position moves if it may.                                               *)
Moves(d, over) == d = "tx" /\ (over \/ HasWriteNext(d))

EnqBuffer(d, over) ==
  /\ addr' = [addr EXCEPT ![d][held] = data]
  /\ w_pos' = IF Moves(d, over) THEN [w_pos EXCEPT ![d] = After(d, @)] ELSE w_pos
  /\ UNCHANGED <<size, r_pos, mem, map_buffer>>

-----------------------------------------------------------------------------
(* The client. First each ring, buffer by buffer: request, map the first   *)
(* time round, enqueue. A request that fails ends this, not the program.   *)
Open ==
  /\ ppc = "off" /\ ppc' = "ring" /\ dir' = "tx" /\ done' = 0 /\ due' = 0
  /\ UNCHANGED <<posVars, bufVars, stateVars, threadVars, held, data, counter,
                 polled, failed, queueVars>>

SetupRing ==
  /\ ppc = "ring" /\ ppc' = "setup" /\ ReqRing(dir)
  /\ UNCHANGED <<stateVars, threadVars, dir, done, held, data, counter, due,
                 polled, failed, queueVars>>

NextRing ==
  /\ done' = 0 /\ dir' = "rx"
  /\ ppc' = IF dir = "tx" THEN "ring" ELSE "start"

SetupRequest ==
  /\ ppc = "setup" /\ ReqBuffer(dir, TRUE)
  /\ IF Lends(dir, TRUE)
       THEN /\ ppc' = IF done < size[dir] THEN "map" ELSE "enqueue"
            /\ UNCHANGED <<dir, done>>
       ELSE NextRing
  /\ UNCHANGED <<stateVars, threadVars, counter, due, polled, failed,
                 queueVars>>

(* device_mmap maps the buffer that was requested last.                    *)
SetupMap ==
  /\ ppc = "map" /\ ppc' = "enqueue" /\ data' = map_buffer
  /\ UNCHANGED <<posVars, bufVars, stateVars, threadVars, dir, done, held,
                 counter, due, polled, failed, queueVars>>

SetupEnqueue ==
  /\ ppc = "enqueue" /\ EnqBuffer(dir, TRUE)
  /\ sem' = 1 /\ held' = None
  /\ state_has_txdata' = (state_has_txdata \/ dir = "tx")
  /\ IF done + 1 = 2 * size[dir] THEN NextRing
     ELSE ppc' = "setup" /\ done' = done + 1 /\ UNCHANGED dir
  /\ UNCHANGED <<state_streaming, should_stop, threadVars, data, counter, due,
                 polled, failed, queueVars>>

Start ==
  /\ ppc = "start" /\ ppc' = "idle"
  /\ state_streaming' = TRUE /\ should_stop' = FALSE
  /\ tpc' = "loop" /\ xpc' = "loop"
  /\ UNCHANGED <<posVars, bufVars, state_has_txdata, dir, done, held, data,
                 counter, due, polled, failed, queueVars>>

(* try_send_something and try_receive_something. Either polls for ten      *)
(* seconds and goes on in any case.                                        *)
Try(d) ==
  /\ ppc = "idle" /\ ppc' = "poll" /\ dir' = d
  /\ IF d = "tx" THEN due < Window /\ counter < MaxMsgs ELSE due > 0
  /\ UNCHANGED <<posVars, bufVars, stateVars, threadVars, done, held, data,
                 counter, due, polled, failed, queueVars>>

(* Mutant of Polled: one position too many is free to write.                *)
PolledWriter == IF dir = "tx" THEN w_pos["tx"] # r_pos["tx"] ELSE HasReadNext(dir)

Polled == IF dir = "tx" THEN HasWriteNext(dir) ELSE HasReadNext(dir)

(* Ten seconds are long: nothing else happens any more. (The last transfer *)
(* wakes a program in poll after the position has moved.)                  *)
TimedOut == ~Polled /\ TxAsleep /\ RxIdle

Poll ==
  /\ ppc = "poll" /\ (Polled \/ TimedOut)
  /\ ppc' = "request" /\ polled' = Polled
  /\ UNCHANGED <<posVars, bufVars, stateVars, threadVars, dir, done, held,
                 data, counter, due, failed, queueVars>>

Request ==
  /\ ppc = "request" /\ ReqBuffer(dir, FALSE)
  /\ IF Lends(dir, FALSE)
       THEN ppc' = "use" /\ UNCHANGED failed
       ELSE ppc' = "idle" /\ failed' = TRUE
  /\ UNCHANGED <<stateVars, threadVars, dir, done, counter, due, polled,
                 queueVars>>

Fill ==
  /\ ppc = "use" /\ dir = "tx" /\ ppc' = "return"
  /\ mem' = [mem EXCEPT !["tx"][data] = counter + 1] /\ counter' = counter + 1
  /\ UNCHANGED <<posVars, addr, map_buffer, sem, stateVars, threadVars, dir,
                 done, held, data, due, polled, failed, queueVars>>

Copy ==
  /\ ppc = "use" /\ dir = "rx" /\ ppc' = "return"
  /\ ready' = Tail(ready) /\ due' = due - 1
  /\ UNCHANGED <<posVars, bufVars, stateVars, threadVars, dir, done, held,
                 data, counter, polled, failed, line, queued>>

(* XDMA_ENQ_BUFFER: the position moves, then the sender is told.           *)
Enqueue ==
  /\ ppc = "return" /\ EnqBuffer(dir, FALSE) /\ ppc' = "tell"
  /\ IF Moves(dir, FALSE)
       THEN /\ queued' = Append(queued, mem[dir][w_pos[dir]])
            /\ due' = due + 1 /\ UNCHANGED failed
       ELSE /\ failed' = (failed \/ dir = "tx") /\ UNCHANGED <<queued, due>>
  /\ UNCHANGED <<sem, stateVars, threadVars, dir, done, held, data, counter,
                 polled, line, ready>>

Tell ==
  /\ ppc = "tell" /\ ppc' = "idle"
  /\ state_has_txdata' = (state_has_txdata \/ dir = "tx")
  /\ sem' = 1 /\ held' = None
  /\ UNCHANGED <<posVars, mem, addr, map_buffer, state_streaming, should_stop,
                 threadVars, dir, done, data, counter, due, polled, failed,
                 queueVars>>

(* The client stops when its rounds are done, or it gets no buffer any more. *)
(* kthread_stop waits until the thread has ended. (If it has ended before, *)
(* nobody owns its task any more: taken as a return at once.)              *)
Stop ==
  /\ ppc = "idle" /\ (due = 0 \/ sem = 0)
  /\ ppc' = "stop" /\ state_streaming' = FALSE
  /\ UNCHANGED <<posVars, bufVars, state_has_txdata, should_stop, threadVars,
                 dir, done, held, data, counter, due, polled, failed,
                 queueVars>>

StopTx ==
  /\ ppc = "stop" /\ ppc' = "stop_tx" /\ should_stop' = TRUE
  /\ UNCHANGED <<posVars, bufVars, state_streaming, state_has_txdata,
                 threadVars, dir, done, held, data, counter, due, polled,
                 failed, queueVars>>

StoppedTx ==
  /\ ppc = "stop_tx" /\ tpc = "exit" /\ ppc' = "stop_rx"
  /\ UNCHANGED <<posVars, bufVars, stateVars, threadVars, dir, done, held,
                 data, counter, due, polled, failed, queueVars>>

(* The receiver looks at state_streaming only between transfers: it ends   *)
(* with the next message or after its ten seconds.                         *)
RxTimeout ==
  /\ xpc = "receive" /\ line = <<>> /\ TxAsleep
  /\ ppc = "stop_rx" \/ (ppc = "poll" /\ ~Polled)
  /\ xpc' = "exit" /\ state_streaming' = FALSE
  /\ UNCHANGED <<posVars, bufVars, state_has_txdata, should_stop, tpc,
                 clientVars, queueVars>>

(* xdma6_release_ring for both rings; what was in them is gone.            *)
Release ==
  /\ ppc = "stop_rx" /\ xpc = "exit" /\ ppc' = "off"
  /\ size' = [d \in Dirs |-> 0] /\ queued' = <<>> /\ ready' = <<>>
  /\ UNCHANGED <<r_pos, w_pos, bufVars, stateVars, threadVars, dir, done,
                 held, data, counter, due, polled, failed, line>>

-----------------------------------------------------------------------------
Init ==
  /\ size = [d \in Dirs |-> 0]
  /\ r_pos = [d \in Dirs |-> 0] /\ w_pos = [d \in Dirs |-> 0]
  /\ mem = [d \in Dirs |-> [i \in 0 .. Size[d] - 1 |-> 0]]
  /\ addr = [d \in Dirs |-> [i \in 0 .. Size[d] - 1 |-> None]]
  /\ map_buffer = None /\ sem = 1
  /\ state_streaming = FALSE /\ state_has_txdata = FALSE /\ should_stop = FALSE
  /\ tpc = "off" /\ xpc = "off"
  /\ ppc = "off" /\ dir = "tx" /\ done = 0 /\ held = None /\ data = None
  /\ counter = 0 /\ due = 0 /\ polled = FALSE /\ failed = FALSE
  /\ line = <<>> /\ queued = <<>> /\ ready = <<>>

Sender   == TxLoop \/ TxNext \/ TxSent \/ TxFault \/ TxForget \/ TxWoken
Receiver == RxLoop \/ RxReceived \/ RxMove \/ RxFault \/ RxTimeout
Setup    == SetupRing \/ SetupRequest \/ SetupMap \/ SetupEnqueue \/ Start
Transfer == Poll \/ Request \/ Fill \/ Copy \/ Enqueue \/ Tell
Ending   == StopTx \/ StoppedTx \/ Release

Next ==
  \/ Sender \/ Receiver
  \/ Open \/ Setup \/ Transfer \/ Stop \/ Ending
  \/ \E d \in Dirs : Try(d)

(* Kernel threads run, transfers and timeouts end, and calls return.       *)
Fairness ==
  /\ WF_vars(Sender) /\ WF_vars(Receiver) /\ WF_vars(Setup \/ Transfer \/ Ending)

Spec == Init /\ [][Next]_vars /\ Fairness

-----------------------------------------------------------------------------
(* What waits in a ring, from the reader's position to the writer's.       *)
Pending(d) ==
  [i \in 1 .. (w_pos[d] - r_pos[d] - 1) % Size[d] |-> mem[d][(r_pos[d] + i) % Size[d]]]

Streaming == ppc \in {"idle", "poll", "request", "use", "return", "tell"}

(* Each ring is a queue: it holds what was put into it and not yet taken   *)
(* out, in order, whoever is moving which position, however often both     *)
(* have gone round; and what is in a buffer in use stays there.            *)
RingIsQueue ==
  Streaming =>
    /\ queued = (IF tpc = "send" THEN <<mem["tx"][r_pos["tx"]]>> ELSE <<>>) \o Pending("tx")
    /\ ready = (IF ppc = "use" /\ dir = "rx" THEN <<mem["rx"][data]>> ELSE <<>>)
               \o Pending("rx")

(* Program and sender are never on the same buffer, though neither of them *)
(* locks it: what the program fills is not what the DMA engine reads.      *)
SenderApart ==
  ppc \in {"use", "return"} /\ dir = "tx" /\ tpc = "send" => held # r_pos["tx"]

(* Nor are program and receiver, if the client keeps its window; and what  *)
(* the program uses is the memory of the buffer it has in hand.            *)
ReceiverApart ==
  ppc \in {"use", "return"} =>
    /\ held = data
    /\ dir = "rx" /\ xpc = "receive" => held # w_pos["rx"]

(* What poll has said is still so when the program acts on it: the first   *)
(* call that fails comes after a poll that ran out of time.                *)
PollHolds == [][failed' /\ ~failed => ~polled]_vars

(* STOP returns, whatever the threads are waiting for.                     *)
StopReturns == (ppc = "stop") ~> (ppc = "off")

-----------------------------------------------------------------------------
(* test_example6.c: `if(err) { printf("ERROR: deq_buffer\n"); return 1; }', *)
(* after a poll and a message that the FPGA would send back.               *)
NoError == ~failed
=============================================================================
