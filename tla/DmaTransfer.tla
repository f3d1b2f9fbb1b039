------------------------------ MODULE DmaTransfer ------------------------------
(***************************************************************************)
(* One DMA transfer out and back, as two drivers of projects/rfx_dmatests  *)
(* make it: axidma_example1.c once when it is probed, axidma_example3.c    *)
(* for each ioctl, in buffers of its own (TEST_TRASFER) or in those that a *)
(* program has mapped (TEST_MMAPTRASFER). A call waits for the transmitter *)
(* only, and no longer than a timeout; what is left of its transfer goes   *)
(* on behind its back, on the channels and completions of the next call.   *)
(*                                                                         *)
(* The program keeps to the order of test_example3.c: no TEST_TRASFER      *)
(* while it has a mapping. It takes a failed mmap for a good one (it looks *)
(* for NULL), and goes on.                                                 *)
(*                                                                         *)
(* External: the DMA engine, which keeps the order of a channel's          *)
(* descriptors and may never finish one; its tasklet, which calls back     *)
(* some time after the cookie is complete; the FPGA, which sends back what *)
(* it gets (wire); dma_alloc_coherent, which zeroes what it gives and      *)
(* gives the lowest address, so that what is freed is soon in use again.   *)
(***************************************************************************)
EXTENDS Integers, Sequences, FiniteSets

CONSTANTS
  Memory,        (* bound: buffers that fit the memory for DMA             *)
  MaxTransfers,  (* bound: calls in a behaviour                            *)
  Null           (* no buffer                                              *)

Chans == {"tx", "rx"}

Addr  == 1 .. Memory

ASSUME DmaAssumption == Memory \in Nat /\ MaxTransfers \in Nat /\ Null \notin Nat

VARIABLES
  alive, content,   \* buffers allocated; the transfer whose data each holds
  handle,           \* tx_dma_handle, rx_dma_handle
  mapped, vma,      \* src_dma_buffer, dst_dma_buffer; the program's mapping
  submitted, issued, callbacks,   \* descriptors of each channel; callbacks due
  completion,       \* tx_cmp, rx_cmp
  call,             \* the call: place, kind, submissions refused, wait ended well
  wire,             \* data between the channels
  number, stale, answer   \* history, see DmaInit

bufferVars  == <<alive, content, handle, mapped, vma>>
engineVars  == <<submitted, issued, callbacks, completion, wire>>
dmaHistory  == <<number, stale, answer>>
dmaVars     == <<bufferVars, engineVars, call, dmaHistory>>

-----------------------------------------------------------------------------
(* The engine.                                                             *)
Finish(d) ==
  /\ issued' = [issued EXCEPT ![d] = Tail(@)]
  /\ callbacks' = [callbacks EXCEPT ![d] = @ + 1]
  /\ UNCHANGED <<alive, handle, mapped, vma, submitted, completion, call, dmaHistory>>

Transmit ==
  /\ issued["tx"] # <<>>
  /\ wire' = Append(wire, content[Head(issued["tx"]).buf])
  /\ Finish("tx") /\ UNCHANGED content

Receive ==
  /\ issued["rx"] # <<>> /\ wire # <<>>
  /\ wire' = Tail(wire)
  /\ content' = [content EXCEPT ![Head(issued["rx"]).buf] = Head(wire)]
  /\ Finish("rx")

(* Mutant of CompletionOf: both descriptors get tx_cmp.                     *)
CompletionTx(d) == "tx"

(* axidma_sync_callback; each descriptor has the completion of its channel. *)
CompletionOf(d) == d

Callback ==
  \E d \in Chans :
    /\ callbacks[d] > 0
    /\ callbacks' = [callbacks EXCEPT ![d] = @ - 1]
    /\ completion' = [completion EXCEPT ![CompletionOf(d)] = @ + 1]
    /\ UNCHANGED <<bufferVars, submitted, issued, wire, call, dmaHistory>>

-----------------------------------------------------------------------------
(* A call begins: which channels still have work of an earlier one.        *)
Enter(kind, place) ==
  /\ call.pc = "out" /\ number < MaxTransfers
  /\ call' = [pc |-> place, kind |-> kind, refused |-> FALSE, won |-> FALSE]
  /\ number' = number + 1
  /\ stale' = [d \in Chans |-> \/ submitted[d] # <<>> \/ issued[d] # <<>>
                               \/ callbacks[d] > 0 \/ wire # <<>>]
  /\ answer' = <<>>

Goto(place) == call' = [call EXCEPT !.pc = place]

(* The outcomes of two dma_alloc_coherent: a pointer and a handle, or NULL  *)
(* and the handle left as it is.                                            *)
Least(s) == CHOOSE a \in s : \A c \in s : a <= c
Taken(got) == \* the buffers for the channels in got
  LET tx == IF "tx" \in got THEN Least(Addr \ alive) ELSE Null
  IN  [d \in Chans |-> IF d = "tx" THEN tx
                       ELSE IF "rx" \in got THEN Least(Addr \ (alive \union {tx})) ELSE Null]
Fits(got) == Cardinality(Addr \ alive) >= Cardinality(got)
Given(b) == {b[d] : d \in Chans} \ {Null}
Handles(b) == [d \in Chans |-> IF b[d] = Null THEN handle[d] ELSE b[d]]
Zeroed(b) == [a \in Addr |-> IF a \in Given(b) THEN 0 ELSE content[a]]

TestCall ==
  /\ vma = "none" /\ Enter("test", "submit_tx")
  /\ Fits(Chans)
  /\ LET b == Taken(Chans)
     IN /\ alive' = alive \union Given(b)
        /\ content' = [Zeroed(b) EXCEPT ![b["tx"]] = number']
        /\ handle' = Handles(b)
  /\ UNCHANGED <<mapped, vma, engineVars>>

(* -EIO; what the other allocation gave is lost.                           *)
TestNoMemory ==
  /\ vma = "none" /\ call.pc = "out"
  /\ \E got \in SUBSET Chans \ {Chans} :
       /\ Fits(got)
       /\ LET b == Taken(got)
          IN /\ alive' = alive \union Given(b)
             /\ content' = Zeroed(b) /\ handle' = Handles(b)
  /\ UNCHANGED <<mapped, vma, engineVars, call, dmaHistory>>

(* The program has filled the source before it calls.                      *)
MmapCall ==
  /\ vma # "none" /\ Enter("mmap", "submit_tx")
  /\ content' = IF vma = "mapped" THEN [content EXCEPT ![mapped["tx"]] = number'] ELSE content
  /\ UNCHANGED <<alive, handle, mapped, vma, engineVars>>

(* dmaengine_prep_slave_single and dmaengine_submit, or -EBUSY.            *)
Submit(d, from, to) ==
  /\ call.pc = from
  /\ \/ /\ handle[d] # Null
        /\ submitted' = [submitted EXCEPT ![d] = Append(@, [buf |-> handle[d], no |-> number])]
        /\ Goto(to)
     \/ call' = [call EXCEPT !.pc = to, !.refused = TRUE] /\ UNCHANGED submitted
  /\ UNCHANGED <<bufferVars, issued, callbacks, completion, wire, dmaHistory>>

SubmitTx == Submit("tx", "submit_tx", "submit_rx")
SubmitRx == Submit("rx", "submit_rx", "check")

(* -EIO: nothing is freed and a descriptor stays with its channel.         *)
Check ==
  /\ call.pc = "check"
  /\ IF call.refused
       THEN Goto("out") /\ answer' = <<"EIO">>
       ELSE Goto("init_rx") /\ UNCHANGED answer
  /\ UNCHANGED <<bufferVars, engineVars, number, stale>>

(* axidma_start_transfer.                                                  *)
Prepare(d, from, to) ==
  /\ call.pc = from /\ Goto(to)
  /\ completion' = [completion EXCEPT ![d] = 0]
  /\ UNCHANGED <<bufferVars, submitted, issued, callbacks, wire, dmaHistory>>

Issue(d, from, to) ==
  /\ call.pc = from /\ Goto(to)
  /\ issued' = [issued EXCEPT ![d] = @ \o submitted[d]]
  /\ submitted' = [submitted EXCEPT ![d] = <<>>]
  /\ UNCHANGED <<bufferVars, callbacks, completion, wire, dmaHistory>>

StartRx == Prepare("rx", "init_rx", "issue_rx") \/ Issue("rx", "issue_rx", "init_tx")
StartTx == Prepare("tx", "init_tx", "issue_tx") \/ Issue("tx", "issue_tx", "wait")

Completed ==
  /\ call.pc = "wait" /\ completion["tx"] > 0
  /\ completion' = [completion EXCEPT !["tx"] = @ - 1]
  /\ call' = [call EXCEPT !.pc = "done", !.won = TRUE]
  /\ UNCHANGED <<bufferVars, submitted, issued, callbacks, wire, dmaHistory>>

(* The call prints it, and goes on as after a success.                     *)
TimeOut ==
  /\ call.pc = "wait" /\ completion["tx"] = 0
  /\ Goto("done")
  /\ UNCHANGED <<bufferVars, engineVars, dmaHistory>>

(* Mutant of Same: the buffers are not compared.                            *)
SameUnseen == TRUE

(* Source and destination hold the pattern: every transfer has the same.   *)
Same == content[handle["rx"]] # 0

(* The buffers are compared, and freed.                                    *)
TestReturn ==
  /\ call.pc = "done" /\ call.kind = "test" /\ Goto("out")
  /\ answer' = <<IF Same THEN "OK" ELSE "EIO", content[handle["rx"]]>>
  /\ alive' = alive \ {handle[d] : d \in Chans}
  /\ UNCHANGED <<content, handle, mapped, vma, engineVars, number, stale>>

MmapReturn ==
  /\ call.pc = "done" /\ call.kind = "mmap" /\ Goto("out")
  /\ UNCHANGED <<bufferVars, engineVars, dmaHistory>>

-----------------------------------------------------------------------------
Mapping(b) == mapped' = b /\ handle' = Handles(b)

(* device_mmap: both buffers, or -EIO without one of them, or -EAGAIN when *)
(* the pages cannot be mapped: then the buffers are lost.                  *)
Mmap ==
  /\ call.pc = "out" /\ vma = "none"
  /\ \E got \in SUBSET Chans :
       /\ Fits(got)
       /\ LET b == Taken(got)
          IN /\ Mapping(b)
             /\ alive' = alive \union Given(b) /\ content' = Zeroed(b)
       /\ vma' \in (IF got = Chans THEN {"mapped", "refused"} ELSE {"refused"})
  /\ UNCHANGED <<engineVars, call, dmaHistory>>

(* munmap, or the end of the program.                                      *)
Munmap ==
  /\ call.pc = "out" /\ vma # "none" /\ vma' = "none"
  /\ alive' = IF vma = "mapped" THEN alive \ {mapped[d] : d \in Chans} ELSE alive
  /\ UNCHANGED <<content, handle, mapped, engineVars, call, dmaHistory>>

-----------------------------------------------------------------------------
DmaInit ==
  /\ alive = {} /\ content = [a \in Addr |-> 0]
  /\ handle = [d \in Chans |-> Null] /\ mapped = [d \in Chans |-> Null] /\ vma = "none"
  /\ submitted = [d \in Chans |-> <<>>] /\ issued = [d \in Chans |-> <<>>]
  /\ callbacks = [d \in Chans |-> 0] /\ completion = [d \in Chans |-> 0]
  /\ wire = <<>>
  /\ call = [pc |-> "out", kind |-> "test", refused |-> FALSE, won |-> FALSE]
  /\ number = 0                          \* the call's number
  /\ stale = [d \in Chans |-> FALSE]     \* it found work of an earlier one
  /\ answer = <<>>                       \* what it has returned: status, data

Engine == Transmit \/ Receive \/ Callback
Called == \/ SubmitTx \/ SubmitRx \/ Check \/ StartRx \/ StartTx
          \/ Completed \/ TimeOut \/ TestReturn \/ MmapReturn
DmaNext == Engine \/ Called \/ TestCall \/ TestNoMemory \/ MmapCall \/ Mmap \/ Munmap

DmaSpec == DmaInit /\ [][DmaNext]_dmaVars

-----------------------------------------------------------------------------
Own(q) == {i \in DOMAIN q : q[i].no = number}

(* A wait that ends before its timeout means that the call's own           *)
(* transmission is complete: init_completion comes before the engine is    *)
(* started and rx has a completion of its own. Only work that an earlier   *)
(* call has left on the channel may end it early.                          *)
OwnCompletion ==
  call.pc = "done" /\ call.won /\ ~stale["tx"] => Own(issued["tx"]) = {}

(* A call moves its own data between its own buffers. While it lasts, its  *)
(* descriptors point to allocated buffers, and to the program's if it has  *)
(* mapped some, unless its mmap was refused; and a TEST_TRASFER that        *)
(* returns 0 has received what it has sent and not what an earlier call    *)
(* has, though all send the same pattern and get each other's memory,      *)
(* unless it found work of an earlier call.                                *)
InBuffers ==
  call.pc # "out" /\ vma # "refused" =>
    \A d \in Chans : \A q \in {submitted[d], issued[d]} : \A i \in Own(q) :
      /\ q[i].buf \in alive
      /\ call.kind = "mmap" => q[i].buf = mapped[d]
OwnData ==
  /\ InBuffers
  /\ answer # <<>> /\ answer[1] = "OK" /\ ~stale["tx"] /\ ~stale["rx"] => answer[2] = number
=============================================================================
