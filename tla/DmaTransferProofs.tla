--------------------------- MODULE DmaTransferProofs ---------------------------
(* A wait that ends before its timeout has waited for the call's own        *)
(* transmission (OwnCompletion), for any memory and any number of calls.    *)
(*                                                                         *)
(* While a call that found nothing left on the transmitter lasts, its one   *)
(* descriptor is the only thing that can complete: up to dma_async_issue_   *)
(* pending it is submitted at most, init_completion has then set the        *)
(* completion to 0, and from there on descriptor, callback and completion   *)
(* together are at most one. When the wait has taken the completion there   *)
(* is nothing left.                                                         *)
(*                                                                         *)
(* And a call moves its own data (OwnData): every descriptor with its       *)
(* number points to the buffers that the handles point to as long as it     *)
(* lasts; if it found nothing left, there is no other data on the way.      *)
EXTENDS DmaTransfer, TLAPS, FiniteSetTheorems, WellFoundedInduction

Before == {"submit_tx", "submit_rx", "check", "init_rx", "issue_rx", "init_tx", "issue_tx"}
Places == Before \union {"out", "wait", "done"}

Idle    == issued["tx"] = <<>> /\ callbacks["tx"] = 0
Pending == Len(issued["tx"]) + callbacks["tx"] + completion["tx"]

(* What a descriptor holds does not matter here.                           *)
Queues == \E S : submitted \in [Chans -> Seq(S)] /\ issued \in [Chans -> Seq(S)]

Types ==
  /\ Queues
  /\ callbacks \in [Chans -> Nat] /\ completion \in [Chans -> Nat]
  /\ call \in [pc : Places, kind : {"test", "mmap"}, refused : BOOLEAN, won : BOOLEAN]
  /\ stale \in [Chans -> BOOLEAN]

Waiting == call.pc \in Before \union {"wait"} => ~call.won

(* The parts of a call that found nothing of an earlier one.                *)
Quiet     == call.pc \in Before => Idle /\ Len(submitted["tx"]) <= 1
First     == call.pc = "submit_tx" => submitted["tx"] = <<>>
Reset     == call.pc = "issue_tx" => completion["tx"] = 0
OneThing  == call.pc = "wait" => Pending <= 1
Nothing   == call.pc = "done" /\ call.won => Pending = 0
Fresh     == ~stale["tx"] => Quiet /\ First /\ Reset /\ OneThing /\ Nothing

IInv == Types /\ Waiting /\ Fresh

-----------------------------------------------------------------------------
(* Queues of one sort of descriptor are queues of a wider one.             *)
LEMMA Wider ==
  ASSUME NEW S, NEW T, S \subseteq T, NEW q \in Seq(S)
  PROVE  q \in Seq(T)
<1>1. q \in [1 .. Len(q) -> S] /\ Len(q) \in Nat
  OBVIOUS
<1>2. q \in [1 .. Len(q) -> T]
  BY <1>1
<1>3. QED  BY <1>1, <1>2

(* What a queue and its length are after a step of either end.             *)
LEMMA Lengths ==
  ASSUME NEW S, NEW q \in Seq(S)
  PROVE  /\ Len(q) \in Nat /\ (q = <<>> <=> Len(q) = 0)
         /\ q # <<>> => Tail(q) \in Seq(S) /\ Len(Tail(q)) = Len(q) - 1
         /\ \A x : Append(q, x) \in Seq(S \union {x}) /\ Len(Append(q, x)) = Len(q) + 1
<1>1. Len(q) \in Nat /\ (q = <<>> <=> Len(q) = 0)
  OBVIOUS
<1>2. q # <<>> => Tail(q) \in Seq(S) /\ Len(Tail(q)) = Len(q) - 1
  OBVIOUS
<1>3. ASSUME NEW x PROVE Append(q, x) \in Seq(S \union {x}) /\ Len(Append(q, x)) = Len(q) + 1
  <2>1. q \in Seq(S \union {x})
    BY Wider
  <2>2. QED  BY <2>1
<1>4. QED  BY <1>1, <1>2, <1>3

LEMMA Joined ==
  ASSUME NEW S, NEW p \in Seq(S), NEW q \in Seq(S)
  PROVE  p \o q \in Seq(S) /\ Len(p \o q) = Len(p) + Len(q)
  OBVIOUS

(* A step that leaves the engine and the place alone keeps the invariant.   *)
LEMMA Unmoved ==
  ASSUME IInv, UNCHANGED <<submitted, issued, callbacks, completion, call, stale>>
  PROVE  IInv'
  BY DEF IInv, Types, Queues, Waiting, Fresh, Quiet, First, Reset, OneThing, Nothing, Idle, Pending

(* At the end of a call nothing is asked of the engine.                     *)
LEMMA Out ==
  ASSUME Types', call'.pc = "out"
  PROVE  IInv'
  BY DEF IInv, Waiting, Fresh, Quiet, First, Reset, OneThing, Nothing, Before

LEMMA Start == DmaInit => IInv
<1> SUFFICES ASSUME DmaInit PROVE IInv
  OBVIOUS
<1>1. Queues
  <2>1. submitted \in [Chans -> Seq({})] /\ issued \in [Chans -> Seq({})]
    BY DEF DmaInit
  <2>2. QED  BY <2>1 DEF Queues
<1>2. Types
  BY <1>1 DEF DmaInit, Types, Places
<1>3. call.pc = "out"
  BY DEF DmaInit
<1>4. QED
  BY <1>2, <1>3 DEF IInv, Waiting, Fresh, Quiet, First, Reset, OneThing, Nothing, Before

-----------------------------------------------------------------------------
(* The engine finishes the descriptor at the head of a channel.            *)
LEMMA Finished ==
  ASSUME IInv, NEW d \in Chans, issued[d] # <<>>, Finish(d)
  PROVE  /\ Types' /\ submitted' = submitted /\ completion' = completion
         /\ call' = call /\ stale' = stale
         /\ d = "tx" => /\ issued["tx"] # <<>>
                        /\ Len(issued'["tx"]) = Len(issued["tx"]) - 1
                        /\ callbacks'["tx"] = callbacks["tx"] + 1
         /\ d = "rx" => issued'["tx"] = issued["tx"] /\ callbacks'["tx"] = callbacks["tx"]
<1>1. PICK S : submitted \in [Chans -> Seq(S)] /\ issued \in [Chans -> Seq(S)]
  BY DEF IInv, Types, Queues
<1>2. /\ issued' = [issued EXCEPT ![d] = Tail(issued[d])]
      /\ callbacks' = [callbacks EXCEPT ![d] = callbacks[d] + 1]
      /\ submitted' = submitted /\ completion' = completion
      /\ call' = call /\ stale' = stale
  BY <1>1 DEF Finish, dmaHistory
<1>3. issued[d] \in Seq(S) /\ callbacks \in [Chans -> Nat]
  BY <1>1 DEF IInv, Types
<1>4. Tail(issued[d]) \in Seq(S) /\ Len(Tail(issued[d])) = Len(issued[d]) - 1
  BY <1>3, Lengths
<1>5. issued' \in [Chans -> Seq(S)]
  BY <1>1, <1>2, <1>4
<1>6. Queues'
  BY <1>1, <1>2, <1>5 DEF Queues
<1>7. callbacks[d] + 1 \in Nat
  BY <1>3
<1>8. callbacks' \in [Chans -> Nat]
  BY <1>2, <1>3, <1>7
<1>9. Types'
  BY <1>2, <1>6, <1>8 DEF IInv, Types
<1>10. d = "tx" => /\ issued'["tx"] = Tail(issued["tx"])
                   /\ callbacks'["tx"] = callbacks["tx"] + 1
  BY <1>1, <1>2, <1>3 DEF Chans
<1>11. d = "rx" => issued'["tx"] = issued["tx"] /\ callbacks'["tx"] = callbacks["tx"]
  BY <1>1, <1>2, <1>3 DEF Chans
<1>12. QED  BY <1>2, <1>4, <1>9, <1>10, <1>11

LEMMA TransmitKeeps == IInv /\ Transmit => IInv'
<1> SUFFICES ASSUME IInv, Transmit PROVE IInv'
  OBVIOUS
<1>1. "tx" \in Chans /\ issued["tx"] # <<>> /\ Finish("tx")
  BY DEF Transmit, Chans
<1>2. /\ Types' /\ submitted' = submitted /\ completion' = completion
      /\ call' = call /\ stale' = stale
      /\ Len(issued'["tx"]) = Len(issued["tx"]) - 1
      /\ callbacks'["tx"] = callbacks["tx"] + 1
  BY <1>1, Finished
<1>3. /\ Len(issued["tx"]) \in Nat /\ Len(issued["tx"]) # 0
      /\ callbacks["tx"] \in Nat /\ completion["tx"] \in Nat
  <2>1. PICK S : issued \in [Chans -> Seq(S)]
    BY DEF IInv, Types, Queues
  <2>2. issued["tx"] \in Seq(S)
    BY <2>1, <1>1
  <2>3. Len(issued["tx"]) \in Nat /\ Len(issued["tx"]) # 0
    BY <1>1, <2>2, Lengths
  <2>4. QED  BY <1>1, <2>3 DEF IInv, Types
<1>4. Pending' = Pending
  BY <1>2, <1>3 DEF Pending
<1>5. ASSUME ~stale["tx"] PROVE Quiet' /\ First' /\ Reset' /\ OneThing' /\ Nothing'
  <2>1. call.pc \notin Before
    BY <1>1, <1>5 DEF IInv, Fresh, Quiet, Idle
  <2>2. QED
    BY <1>2, <1>4, <1>5, <2>1 DEF IInv, Fresh, Quiet, First, Reset, OneThing, Nothing, Before
<1>6. QED  BY <1>2, <1>5 DEF IInv, Waiting, Fresh

LEMMA ReceiveKeeps == IInv /\ Receive => IInv'
<1> SUFFICES ASSUME IInv, Receive PROVE IInv'
  OBVIOUS
<1>1. "rx" \in Chans /\ issued["rx"] # <<>> /\ Finish("rx")
  BY DEF Receive, Chans
<1>2. /\ Types' /\ submitted' = submitted /\ completion' = completion
      /\ call' = call /\ stale' = stale
      /\ issued'["tx"] = issued["tx"] /\ callbacks'["tx"] = callbacks["tx"]
  BY <1>1, Finished
<1>3. QED
  BY <1>2 DEF IInv, Waiting, Fresh, Quiet, First, Reset, OneThing, Nothing, Idle, Pending

(* Only what has been finished calls back, and it completes its own channel. *)
LEMMA CallbackKeeps == IInv /\ Callback => IInv'
<1> SUFFICES ASSUME IInv, Callback PROVE IInv'
  OBVIOUS
<1>1. PICK d \in Chans :
        /\ callbacks[d] > 0
        /\ callbacks' = [callbacks EXCEPT ![d] = callbacks[d] - 1]
        /\ completion' = [completion EXCEPT ![d] = completion[d] + 1]
        /\ submitted' = submitted /\ issued' = issued /\ call' = call /\ stale' = stale
  BY DEF Callback, CompletionOf, dmaHistory
<1>2. /\ callbacks \in [Chans -> Nat] /\ completion \in [Chans -> Nat]
      /\ callbacks[d] - 1 \in Nat /\ completion[d] + 1 \in Nat
  BY <1>1 DEF IInv, Types
<1>3. callbacks' \in [Chans -> Nat] /\ completion' \in [Chans -> Nat]
  BY <1>1, <1>2
<1>4. Types'
  BY <1>1, <1>3 DEF IInv, Types, Queues
<1>5. CASE d = "tx"
  <2>1. /\ callbacks'["tx"] = callbacks["tx"] - 1
        /\ completion'["tx"] = completion["tx"] + 1
        /\ callbacks["tx"] # 0
    BY <1>1, <1>2, <1>5
  <2>2. Pending' = Pending
    <3>1. Len(issued["tx"]) \in Nat
      <4>1. PICK S : issued \in [Chans -> Seq(S)]
        BY DEF IInv, Types, Queues
      <4>2. issued["tx"] \in Seq(S)
        BY <4>1 DEF Chans
      <4>3. QED  BY <4>2, Lengths
    <3>2. callbacks["tx"] \in Nat /\ completion["tx"] \in Nat
      BY <1>2 DEF Chans
    <3>3. QED  BY <1>1, <2>1, <3>1, <3>2 DEF Pending
  <2>3. ASSUME ~stale["tx"] PROVE Quiet' /\ First' /\ Reset' /\ OneThing' /\ Nothing'
    <3>1. call.pc \notin Before
      BY <2>1, <2>3 DEF IInv, Fresh, Quiet, Idle
    <3>2. QED
      BY <1>1, <2>2, <2>3, <3>1 DEF IInv, Fresh, Quiet, First, Reset, OneThing, Nothing, Before
  <2>4. QED  BY <1>1, <1>4, <2>3 DEF IInv, Waiting, Fresh
<1>6. CASE d = "rx"
  <2>1. callbacks'["tx"] = callbacks["tx"] /\ completion'["tx"] = completion["tx"]
    BY <1>1, <1>2, <1>6 DEF Chans
  <2>2. QED
    BY <1>1, <1>4, <2>1 DEF IInv, Waiting, Fresh, Quiet, First, Reset, OneThing, Nothing, Idle, Pending
<1>7. QED  BY <1>5, <1>6 DEF Chans

-----------------------------------------------------------------------------
(* A call looks at what is left on the channels when it begins.            *)
LEMMA EnterKeeps == IInv /\ (TestCall \/ MmapCall) => IInv'
<1> SUFFICES ASSUME IInv, TestCall \/ MmapCall PROVE IInv'
  OBVIOUS
<1>1. PICK kind \in {"test", "mmap"} :
        /\ call' = [pc |-> "submit_tx", kind |-> kind, refused |-> FALSE, won |-> FALSE]
        /\ stale' = [d \in Chans |-> \/ submitted[d] # <<>> \/ issued[d] # <<>>
                                     \/ callbacks[d] > 0 \/ wire # <<>>]
        /\ submitted' = submitted /\ issued' = issued
        /\ callbacks' = callbacks /\ completion' = completion
  BY DEF TestCall, MmapCall, Enter, engineVars
<1>2. Types'
  BY <1>1 DEF IInv, Types, Queues, Places, Before
<1>3. call'.pc = "submit_tx" /\ ~call'.won
  BY <1>1
<1>4. ASSUME ~stale'["tx"] PROVE Quiet' /\ First'
  <2>1. submitted["tx"] = <<>> /\ issued["tx"] = <<>> /\ ~(callbacks["tx"] > 0)
    BY <1>1, <1>4 DEF Chans
  <2>2. callbacks["tx"] = 0
    BY <2>1 DEF IInv, Types, Chans
  <2>3. QED  BY <1>1, <2>1, <2>2 DEF Quiet, First, Idle
<1>5. QED
  BY <1>2, <1>3, <1>4 DEF IInv, Waiting, Fresh, Reset, OneThing, Nothing

LEMMA SubmitTxKeeps == IInv /\ SubmitTx => IInv'
<1> SUFFICES ASSUME IInv, SubmitTx PROVE IInv'
  OBVIOUS
<1>1. /\ call.pc = "submit_tx" /\ issued' = issued /\ callbacks' = callbacks
      /\ completion' = completion /\ stale' = stale
      /\ call' \in {[call EXCEPT !.pc = "submit_rx"],
                    [call EXCEPT !.pc = "submit_rx", !.refused = TRUE]}
  BY DEF SubmitTx, Submit, Goto, dmaHistory
<1>2. /\ call' \in [pc : Places, kind : {"test", "mmap"}, refused : BOOLEAN, won : BOOLEAN]
      /\ call'.pc = "submit_rx" /\ call'.won = call.won
  BY <1>1 DEF IInv, Types, Places, Before
<1>3. PICK S : submitted \in [Chans -> Seq(S)] /\ issued \in [Chans -> Seq(S)]
  BY DEF IInv, Types, Queues
<1>4. ~call'.won
  BY <1>1, <1>2 DEF IInv, Waiting, Before
<1>5. CASE submitted' = submitted
  <2>1. Types'
    BY <1>1, <1>2, <1>5 DEF IInv, Types, Queues
  <2>2. QED
    BY <1>1, <1>2, <1>4, <1>5, <2>1
       DEF IInv, Waiting, Fresh, Quiet, First, Reset, OneThing, Nothing, Idle, Before
<1>6. CASE \E x : submitted' = [submitted EXCEPT !["tx"] = Append(@, x)]
  <2>1. PICK x : submitted' = [submitted EXCEPT !["tx"] = Append(submitted["tx"], x)]
    BY <1>3, <1>6 DEF Chans
  <2>2. submitted["tx"] \in Seq(S) /\ submitted["rx"] \in Seq(S)
        /\ issued["tx"] \in Seq(S) /\ issued["rx"] \in Seq(S)
    BY <1>3 DEF Chans
  <2>3. /\ Append(submitted["tx"], x) \in Seq(S \union {x})
        /\ Len(Append(submitted["tx"], x)) = Len(submitted["tx"]) + 1
    BY <2>2, Lengths
  <2>4. submitted["rx"] \in Seq(S \union {x}) /\ issued["tx"] \in Seq(S \union {x})
        /\ issued["rx"] \in Seq(S \union {x})
    BY <2>2, Wider
  <2>5. submitted \in [Chans -> Seq(S \union {x})] /\ issued' \in [Chans -> Seq(S \union {x})]
    <3>1. submitted["tx"] \in Seq(S \union {x})
      BY <2>2, Wider
    <3>2. QED  BY <1>1, <1>3, <2>4, <3>1 DEF Chans
  <2>6. submitted' \in [Chans -> Seq(S \union {x})]
    BY <2>1, <2>3, <2>5
  <2>7. Queues'
    BY <2>5, <2>6 DEF Queues
  <2>8. Types'
    BY <1>1, <1>2, <2>7 DEF IInv, Types
  <2>9. submitted'["tx"] = Append(submitted["tx"], x)
    BY <1>3, <2>1 DEF Chans
  <2>10. ASSUME ~stale["tx"] PROVE Idle /\ Len(submitted'["tx"]) = 1
    <3>1. submitted["tx"] = <<>> /\ Idle
      BY <1>1, <2>10 DEF IInv, Fresh, First, Quiet, Before
    <3>2. Len(submitted'["tx"]) = Len(submitted["tx"]) + 1
      BY <2>3, <2>9
    <3>3. Len(submitted["tx"]) = 0
      BY <3>1
    <3>4. QED  BY <3>1, <3>2, <3>3
  <2>11. ASSUME ~stale'["tx"] PROVE Quiet'
    <3>1. Idle' /\ Len(submitted'["tx"]) = 1
      BY <1>1, <2>10, <2>11 DEF Idle
    <3>2. QED  BY <3>1 DEF Quiet
  <2>12. call'.pc = "submit_rx"
    BY <1>2
  <2>13. First' /\ Reset' /\ OneThing' /\ Nothing'
    BY <2>12 DEF First, Reset, OneThing, Nothing
  <2>14. QED
    BY <1>4, <2>8, <2>11, <2>13 DEF IInv, Waiting, Fresh
<1>7. QED  BY <1>5, <1>6 DEF SubmitTx, Submit

LEMMA SubmitRxKeeps == IInv /\ SubmitRx => IInv'
<1> SUFFICES ASSUME IInv, SubmitRx PROVE IInv'
  OBVIOUS
<1>1. /\ call.pc = "submit_rx" /\ issued' = issued /\ callbacks' = callbacks
      /\ completion' = completion /\ stale' = stale
      /\ call' \in {[call EXCEPT !.pc = "check"],
                    [call EXCEPT !.pc = "check", !.refused = TRUE]}
  BY DEF SubmitRx, Submit, Goto, dmaHistory
<1>2. /\ call' \in [pc : Places, kind : {"test", "mmap"}, refused : BOOLEAN, won : BOOLEAN]
      /\ call'.pc = "check" /\ call'.won = call.won
  BY <1>1 DEF IInv, Types, Places, Before
<1>3. PICK S : submitted \in [Chans -> Seq(S)] /\ issued \in [Chans -> Seq(S)]
  BY DEF IInv, Types, Queues
<1>4. Queues' /\ submitted'["tx"] = submitted["tx"]
  <2>1. CASE submitted' = submitted
    BY <1>1, <1>3, <2>1 DEF Queues
  <2>2. CASE \E x : submitted' = [submitted EXCEPT !["rx"] = Append(@, x)]
    <3>1. PICK x : submitted' = [submitted EXCEPT !["rx"] = Append(submitted["rx"], x)]
      BY <1>3, <2>2 DEF Chans
    <3>2. \A d \in Chans : submitted[d] \in Seq(S \union {x}) /\ issued[d] \in Seq(S \union {x})
      BY <1>3, Wider
    <3>3. submitted \in [Chans -> Seq(S \union {x})] /\ issued' \in [Chans -> Seq(S \union {x})]
      BY <1>1, <1>3, <3>2
    <3>4. Append(submitted["rx"], x) \in Seq(S \union {x})
      BY <1>3, Lengths DEF Chans
    <3>5. submitted' \in [Chans -> Seq(S \union {x})]
      BY <3>1, <3>3, <3>4
    <3>6. submitted'["tx"] = submitted["tx"]
      BY <1>3, <3>1 DEF Chans
    <3>7. QED  BY <3>3, <3>5, <3>6 DEF Queues
  <2>3. QED  BY <2>1, <2>2 DEF SubmitRx, Submit
<1>5. Types'
  BY <1>1, <1>2, <1>4 DEF IInv, Types
<1>6. QED
  BY <1>1, <1>2, <1>4, <1>5
     DEF IInv, Waiting, Fresh, Quiet, First, Reset, OneThing, Nothing, Idle, Before

(* An error ends the call; otherwise the completions are prepared.         *)
LEMMA CheckKeeps == IInv /\ Check => IInv'
<1> SUFFICES ASSUME IInv, Check PROVE IInv'
  OBVIOUS
<1>1. /\ call.pc = "check" /\ UNCHANGED <<submitted, issued, callbacks, completion, stale>>
      /\ call' \in {[call EXCEPT !.pc = "out"], [call EXCEPT !.pc = "init_rx"]}
  BY DEF Check, Goto, engineVars
<1>2. /\ call' \in [pc : {"out", "init_rx"}, kind : {"test", "mmap"},
                    refused : BOOLEAN, won : BOOLEAN]
      /\ call'.won = call.won
  BY <1>1 DEF IInv, Types
<1>3. Types'
  BY <1>1, <1>2 DEF IInv, Types, Queues, Places, Before
<1>4. QED
  BY <1>1, <1>2, <1>3
     DEF IInv, Waiting, Fresh, Quiet, First, Reset, OneThing, Nothing, Idle, Before

LEMMA PrepareKeeps ==
  ASSUME IInv, NEW d \in Chans, NEW from \in Before, NEW to \in Before,
         Prepare(d, from, to), from # "submit_tx", to # "submit_tx",
         to = "issue_tx" => d = "tx"
  PROVE  IInv'
<1>1. /\ call.pc = from /\ call' = [call EXCEPT !.pc = to]
      /\ completion' = [completion EXCEPT ![d] = 0]
      /\ UNCHANGED <<submitted, issued, callbacks, stale>>
  BY DEF Prepare, Goto, dmaHistory
<1>2. /\ call' \in [pc : Places, kind : {"test", "mmap"}, refused : BOOLEAN, won : BOOLEAN]
      /\ call'.pc = to /\ call'.won = call.won
  BY <1>1 DEF IInv, Types, Places
<1>3. completion' \in [Chans -> Nat] /\ (d = "tx" => completion'["tx"] = 0)
  BY <1>1 DEF IInv, Types
<1>4. Types'
  BY <1>1, <1>2, <1>3 DEF IInv, Types, Queues
<1>5. QED
  BY <1>1, <1>2, <1>3, <1>4
     DEF IInv, Waiting, Fresh, Quiet, First, Reset, OneThing, Nothing, Idle, Before

(* dma_async_issue_pending hands over what has been submitted.             *)
LEMMA Issued ==
  ASSUME IInv, NEW d \in Chans, NEW from \in Before, NEW to \in Places, Issue(d, from, to)
  PROVE  /\ Types' /\ call.pc = from /\ call'.pc = to /\ call'.won = call.won
         /\ completion' = completion /\ callbacks' = callbacks /\ stale' = stale
         /\ d = "tx" => Len(issued'["tx"]) = Len(issued["tx"]) + Len(submitted["tx"])
         /\ d = "rx" => issued'["tx"] = issued["tx"] /\ submitted'["tx"] = submitted["tx"]
<1>1. /\ call.pc = from /\ call' = [call EXCEPT !.pc = to]
      /\ completion' = completion /\ callbacks' = callbacks /\ stale' = stale
      /\ issued' = [issued EXCEPT ![d] = @ \o submitted[d]]
      /\ submitted' = [submitted EXCEPT ![d] = <<>>]
  BY DEF Issue, Goto, dmaHistory
<1>2. /\ call' \in [pc : Places, kind : {"test", "mmap"}, refused : BOOLEAN, won : BOOLEAN]
      /\ call'.pc = to /\ call'.won = call.won
  BY <1>1 DEF IInv, Types, Places
<1>3. PICK S : submitted \in [Chans -> Seq(S)] /\ issued \in [Chans -> Seq(S)]
  BY DEF IInv, Types, Queues
<1>4. issued[d] \in Seq(S) /\ submitted[d] \in Seq(S) /\ <<>> \in Seq(S)
  BY <1>3
<1>5. /\ issued[d] \o submitted[d] \in Seq(S)
      /\ Len(issued[d] \o submitted[d]) = Len(issued[d]) + Len(submitted[d])
  BY <1>4, Joined
<1>6. issued' = [issued EXCEPT ![d] = issued[d] \o submitted[d]]
  BY <1>1, <1>3
<1>7. issued' \in [Chans -> Seq(S)]
  BY <1>3, <1>5, <1>6
<1>8. submitted' \in [Chans -> Seq(S)]
  BY <1>1, <1>3, <1>4
<1>9. Types'
  BY <1>1, <1>2, <1>7, <1>8 DEF IInv, Types, Queues
<1>10. issued'[d] = issued[d] \o submitted[d]
  BY <1>3, <1>6
<1>11. d = "rx" => issued'["tx"] = issued["tx"] /\ submitted'["tx"] = submitted["tx"]
  BY <1>1, <1>3, <1>6 DEF Chans
<1>12. d = "tx" => Len(issued'["tx"]) = Len(issued["tx"]) + Len(submitted["tx"])
  BY <1>5, <1>10
<1>13. QED  BY <1>1, <1>2, <1>9, <1>11, <1>12

LEMMA StartRxKeeps == IInv /\ StartRx => IInv'
<1> SUFFICES ASSUME IInv, StartRx PROVE IInv'
  OBVIOUS
<1>1. CASE Prepare("rx", "init_rx", "issue_rx")
  BY <1>1, PrepareKeeps DEF Chans, Before
<1>2. CASE Issue("rx", "issue_rx", "init_tx")
  <2>1. /\ Types' /\ call.pc = "issue_rx" /\ call'.pc = "init_tx" /\ call'.won = call.won
        /\ completion' = completion /\ callbacks' = callbacks /\ stale' = stale
        /\ issued'["tx"] = issued["tx"] /\ submitted'["tx"] = submitted["tx"]
    BY <1>2, Issued DEF Chans, Before, Places
  <2>2. QED
    BY <2>1 DEF IInv, Waiting, Fresh, Quiet, First, Reset, OneThing, Nothing, Idle, Before
<1>3. QED  BY <1>1, <1>2 DEF StartRx

LEMMA StartTxKeeps == IInv /\ StartTx => IInv'
<1> SUFFICES ASSUME IInv, StartTx PROVE IInv'
  OBVIOUS
<1>1. CASE Prepare("tx", "init_tx", "issue_tx")
  BY <1>1, PrepareKeeps DEF Chans, Before
<1>2. CASE Issue("tx", "issue_tx", "wait")
  <2>1. /\ Types' /\ call.pc = "issue_tx" /\ call'.pc = "wait" /\ call'.won = call.won
        /\ completion' = completion /\ callbacks' = callbacks /\ stale' = stale
        /\ Len(issued'["tx"]) = Len(issued["tx"]) + Len(submitted["tx"])
    BY <1>2, Issued DEF Chans, Before, Places
  <2>2. ASSUME ~stale["tx"] PROVE Pending' <= 1
    <3>1. /\ issued["tx"] = <<>> /\ callbacks["tx"] = 0 /\ completion["tx"] = 0
          /\ Len(submitted["tx"]) <= 1
      BY <2>1, <2>2 DEF IInv, Fresh, Quiet, Reset, Idle, Before
    <3>2. Len(issued["tx"]) = 0
      BY <3>1
    <3>3. Len(submitted["tx"]) \in Nat
      <4>1. PICK S : submitted \in [Chans -> Seq(S)]
        BY DEF IInv, Types, Queues
      <4>2. submitted["tx"] \in Seq(S)
        BY <4>1 DEF Chans
      <4>3. QED  BY <4>2, Lengths
    <3>4. Len(issued'["tx"]) <= 1 /\ Len(issued'["tx"]) \in Nat
      BY <2>1, <3>1, <3>2, <3>3
    <3>5. QED  BY <2>1, <3>1, <3>4 DEF Pending
  <2>3. ~call'.won
    BY <2>1 DEF IInv, Waiting, Before
  <2>4. QED
    BY <2>1, <2>2, <2>3 DEF IInv, Waiting, Fresh, Quiet, First, Reset, OneThing, Nothing, Before
<1>3. QED  BY <1>1, <1>2 DEF StartTx

(* The completion taken was all that there was.                            *)
LEMMA CompletedKeeps == IInv /\ Completed => IInv'
<1> SUFFICES ASSUME IInv, Completed PROVE IInv'
  OBVIOUS
<1>1. /\ call.pc = "wait" /\ completion["tx"] > 0
      /\ completion' = [completion EXCEPT !["tx"] = @ - 1]
      /\ call' = [call EXCEPT !.pc = "done", !.won = TRUE]
      /\ UNCHANGED <<submitted, issued, callbacks, stale>>
  BY DEF Completed, dmaHistory
<1>2. completion \in [Chans -> Nat] /\ completion["tx"] \in Nat /\ "tx" \in Chans
  BY DEF IInv, Types, Chans
<1>3. completion' \in [Chans -> Nat] /\ completion'["tx"] = completion["tx"] - 1
  <2>1. completion' = [completion EXCEPT !["tx"] = completion["tx"] - 1]
    BY <1>1, <1>2
  <2>2. completion["tx"] - 1 \in Nat
    BY <1>1, <1>2
  <2>3. QED  BY <1>2, <2>1, <2>2
<1>4. call' \in [pc : {"done"}, kind : {"test", "mmap"}, refused : BOOLEAN, won : BOOLEAN]
  BY <1>1 DEF IInv, Types
<1>5. Types'
  BY <1>1, <1>3, <1>4 DEF IInv, Types, Queues, Places
<1>6. ASSUME ~stale["tx"] PROVE Pending' = 0
  <2>1. Pending <= 1
    BY <1>1, <1>6 DEF IInv, Fresh, OneThing
  <2>2. Len(issued["tx"]) \in Nat /\ callbacks["tx"] \in Nat
    <3>1. PICK S : issued \in [Chans -> Seq(S)]
      BY DEF IInv, Types, Queues
    <3>2. issued["tx"] \in Seq(S)
      BY <1>2, <3>1
    <3>3. QED  BY <1>2, <3>2, Lengths DEF IInv, Types
  <2>3. QED  BY <1>1, <1>2, <1>3, <2>1, <2>2 DEF Pending
<1>7. QED
  BY <1>1, <1>4, <1>5, <1>6 DEF IInv, Waiting, Fresh, Quiet, First, Reset, OneThing, Nothing, Before

LEMMA TimeOutKeeps == IInv /\ TimeOut => IInv'
<1> SUFFICES ASSUME IInv, TimeOut PROVE IInv'
  OBVIOUS
<1>1. /\ call.pc = "wait" /\ call' = [call EXCEPT !.pc = "done"]
      /\ UNCHANGED <<submitted, issued, callbacks, completion, stale>>
  BY DEF TimeOut, Goto, engineVars, dmaHistory
<1>2. /\ call' \in [pc : {"done"}, kind : {"test", "mmap"}, refused : BOOLEAN, won : BOOLEAN]
      /\ call'.won = call.won
  BY <1>1 DEF IInv, Types
<1>3. ~call'.won
  BY <1>1, <1>2 DEF IInv, Waiting
<1>4. Types'
  BY <1>1, <1>2 DEF IInv, Types, Queues, Places
<1>5. QED
  BY <1>1, <1>2, <1>3, <1>4 DEF IInv, Waiting, Fresh, Quiet, First, Reset, OneThing, Nothing, Before

LEMMA ReturnKeeps == IInv /\ (TestReturn \/ MmapReturn) => IInv'
<1> SUFFICES ASSUME IInv, TestReturn \/ MmapReturn PROVE IInv'
  OBVIOUS
<1>1. /\ call' = [call EXCEPT !.pc = "out"]
      /\ UNCHANGED <<submitted, issued, callbacks, completion, stale>>
  BY DEF TestReturn, MmapReturn, Goto, engineVars, dmaHistory
<1>2. call' \in [pc : {"out"}, kind : {"test", "mmap"}, refused : BOOLEAN, won : BOOLEAN]
  BY <1>1 DEF IInv, Types
<1>3. Types'
  BY <1>1, <1>2 DEF IInv, Types, Queues, Places
<1>4. QED  BY <1>2, <1>3, Out

(* Memory and mappings are nothing to the engine's queues.                 *)
LEMMA MemoryKeeps == IInv /\ (TestNoMemory \/ Mmap \/ Munmap) => IInv'
<1> SUFFICES ASSUME IInv, TestNoMemory \/ Mmap \/ Munmap PROVE IInv'
  OBVIOUS
<1>1. UNCHANGED <<submitted, issued, callbacks, completion, call, stale>>
  BY DEF TestNoMemory, Mmap, Munmap, engineVars, dmaHistory
<1>2. QED  BY <1>1, Unmoved

-----------------------------------------------------------------------------
(* In every state: a wait that has ended well, in a call that found nothing *)
(* left on the transmitter, has waited for the call's own transmission.     *)
THEOREM OwnDone == DmaSpec => []OwnCompletion
<1>1. DmaInit => IInv
  BY Start
<1>2. IInv /\ [DmaNext]_dmaVars => IInv'
  <2> SUFFICES ASSUME IInv, [DmaNext]_dmaVars PROVE IInv'
    OBVIOUS
  <2>1. CASE UNCHANGED dmaVars
    BY <2>1, Unmoved DEF dmaVars, engineVars, dmaHistory
  <2>2. CASE Engine
    BY <2>2, TransmitKeeps, ReceiveKeeps, CallbackKeeps DEF Engine
  <2>3. CASE Called
    BY <2>3, SubmitTxKeeps, SubmitRxKeeps, CheckKeeps, StartRxKeeps, StartTxKeeps,
       CompletedKeeps, TimeOutKeeps, ReturnKeeps DEF Called
  <2>4. QED
    BY <2>1, <2>2, <2>3, EnterKeeps, MemoryKeeps DEF DmaNext
<1>3. IInv => OwnCompletion
  <2> SUFFICES ASSUME IInv, call.pc = "done", call.won, ~stale["tx"] PROVE Own(issued["tx"]) = {}
    BY DEF OwnCompletion
  <2>1. Pending = 0
    BY DEF IInv, Fresh, Nothing
  <2>2. PICK S : issued \in [Chans -> Seq(S)]
    BY DEF IInv, Types, Queues
  <2>3. issued["tx"] \in Seq(S) /\ callbacks["tx"] \in Nat /\ completion["tx"] \in Nat
    BY <2>2 DEF IInv, Types, Chans
  <2>4. Len(issued["tx"]) = 0
    BY <2>1, <2>3, Lengths DEF Pending
  <2>5. DOMAIN issued["tx"] = {}
    BY <2>3, <2>4
  <2>6. QED  BY <2>5 DEF Own
<1>4. QED  BY <1>1, <1>2, <1>3, PTL DEF DmaSpec

-----------------------------------------------------------------------------
(* What a call moves, and where (OwnData).                                  *)

(* A descriptor of a channel: that of the call points to its buffer, and   *)
(* so do all when the call has found nothing left on the channel.           *)
Mine(d) ==
  {x \in [buf : Addr, no : Nat] :
     /\ x.no <= number
     /\ call.pc # "out" /\ (x.no = number \/ ~stale[d]) => x.buf = handle[d]}

Memories ==
  /\ alive \subseteq Addr /\ content \in [Addr -> Nat]
  /\ handle \in [Chans -> Addr \union {Null}] /\ mapped \in [Chans -> Addr \union {Null}]
  /\ vma \in {"none", "mapped", "refused"}
  /\ number \in Nat /\ wire \in Seq(Nat) /\ stale \in [Chans -> BOOLEAN]
  /\ call = [pc |-> call.pc, kind |-> call.kind, refused |-> call.refused, won |-> call.won]
  /\ submitted = [d \in Chans |-> submitted[d]] /\ issued = [d \in Chans |-> issued[d]]

Pointing ==
  \A d \in Chans : submitted[d] \in Seq(Mine(d)) /\ issued[d] \in Seq(Mine(d))

(* The buffers of a call stay allocated as long as it lasts.               *)
Holding ==
  /\ vma = "mapped" => \A d \in Chans : handle[d] = mapped[d] /\ mapped[d] \in alive
  /\ call.pc # "out" => call.kind \in {"test", "mmap"}
  /\ call.pc # "out" /\ call.kind = "test" =>
       vma = "none" /\ handle["tx"] # handle["rx"] /\ \A d \in Chans : handle[d] \in alive
  /\ call.pc # "out" /\ call.kind = "mmap" => vma # "none"

(* With nothing left of an earlier call there is no data but the call's.   *)
Alone == call.pc # "out" /\ call.kind = "test" /\ ~stale["tx"] /\ ~stale["rx"]
Carried ==
  Alone => /\ content[handle["tx"]] = number
           /\ content[handle["rx"]] \in {0, number}
           /\ wire \in Seq({number})

Answered ==
  answer # <<>> /\ answer[1] = "OK" /\ ~stale["tx"] /\ ~stale["rx"] => answer[2] = number

DInv == Memories /\ Pointing /\ Holding /\ Carried /\ Answered

LEMMA DataStart == DmaInit => DInv
<1> SUFFICES ASSUME DmaInit PROVE DInv
  OBVIOUS
<1>1. /\ Memories /\ call.pc = "out" /\ vma = "none" /\ answer = <<>>
  BY DEF DmaInit, Memories
<1>2. Pointing
  <2>1. \A d \in Chans : submitted[d] = <<>> /\ issued[d] = <<>>
    BY DEF DmaInit
  <2>2. \A S : <<>> \in Seq(S)
    OBVIOUS
  <2>3. QED  BY <2>1, <2>2, Zenon DEF Pointing
<1>3. QED  BY <1>1, <1>2 DEF DInv, Holding, Carried, Alone, Answered

(* A channel's descriptors are still what they were.                       *)
LEMMA Points ==
  ASSUME DInv, \A d \in Chans : Mine(d) \subseteq Mine(d)',
         \A d \in Chans : submitted'[d] = submitted[d] /\ issued'[d] = issued[d]
  PROVE  Pointing'
<1> SUFFICES ASSUME NEW d \in Chans
             PROVE  submitted'[d] \in Seq(Mine(d)') /\ issued'[d] \in Seq(Mine(d)')
  BY DEF Pointing
<1>1. submitted[d] \in Seq(Mine(d)) /\ issued[d] \in Seq(Mine(d))
  BY DEF DInv, Pointing
<1>2. Mine(d) \subseteq Mine(d)'
  OBVIOUS
<1>3. submitted[d] \in Seq(Mine(d)') /\ issued[d] \in Seq(Mine(d)')
  BY <1>1, <1>2, Wider
<1>4. QED  BY <1>3

(* What a descriptor may be depends on the call and its buffers only.      *)
LEMMA MineSame ==
  ASSUME UNCHANGED <<handle, number, stale>>, call'.pc = "out" \/ call.pc # "out" \/ call'.pc = call.pc
  PROVE  \A d \in Chans : Mine(d) \subseteq Mine(d)'
  BY DEF Mine

(* Taking the first of a channel.                                          *)
LEMMA HeadTail ==
  ASSUME NEW S, NEW q \in Seq(S), q # <<>>
  PROVE  Head(q) \in S /\ Tail(q) \in Seq(S)
  OBVIOUS

LEMMA FinishDoes ==
  ASSUME DInv, NEW d \in Chans, Finish(d), issued[d] # <<>>
  PROVE  /\ UNCHANGED <<alive, handle, mapped, vma, submitted, call, number, stale, answer>>
         /\ Head(issued[d]) \in Mine(d)
         /\ issued' = [e \in Chans |-> issued'[e]]
         /\ Pointing'
<1>1. /\ UNCHANGED <<alive, handle, mapped, vma, submitted, call, number, stale, answer>>
      /\ issued' = [issued EXCEPT ![d] = Tail(@)]
  BY DEF Finish, dmaHistory
<1>2. /\ \A e \in Chans : submitted[e] \in Seq(Mine(e)) /\ issued[e] \in Seq(Mine(e))
      /\ issued = [e \in Chans |-> issued[e]]
  BY DEF DInv, Pointing, Memories
<1>3. Head(issued[d]) \in Mine(d) /\ Tail(issued[d]) \in Seq(Mine(d))
  BY <1>2, HeadTail
<1>4. \A e \in Chans : Mine(e)' = Mine(e)
  BY <1>1 DEF Mine
<1>5. /\ issued' = [e \in Chans |-> issued'[e]]
      /\ \A e \in Chans : issued'[e] = IF e = d THEN Tail(issued[d]) ELSE issued[e]
  BY <1>1, <1>2
<1>6. \A e \in Chans : submitted'[e] \in Seq(Mine(e)) /\ issued'[e] \in Seq(Mine(e))
  BY <1>1, <1>2, <1>3, <1>5
<1>7. Pointing'
  BY <1>4, <1>6 DEF Pointing
<1>8. QED  BY <1>1, <1>3, <1>5, <1>7

LEMMA TransmitData == DInv /\ Transmit => DInv'
<1> SUFFICES ASSUME DInv, Transmit PROVE DInv'
  OBVIOUS
<1> DEFINE x == Head(issued["tx"])
<1>1. /\ "tx" \in Chans /\ issued["tx"] # <<>> /\ Finish("tx") /\ content' = content
      /\ wire' = Append(wire, content[x.buf])
  BY DEF Transmit, Chans
<1>2. /\ UNCHANGED <<alive, handle, mapped, vma, submitted, call, number, stale, answer>>
      /\ x \in Mine("tx") /\ Pointing' /\ issued' = [e \in Chans |-> issued'[e]]
  BY <1>1, FinishDoes
<1> HIDE DEF x
<1>3. x.buf \in Addr /\ content[x.buf] \in Nat
  BY <1>2 DEF Mine, DInv, Memories
<1>4. wire' \in Seq(Nat)
  BY <1>1, <1>3 DEF DInv, Memories
<1>5. Memories'
  BY <1>1, <1>2, <1>4 DEF DInv, Memories
<1>6. Carried'
  <2> SUFFICES ASSUME Alone PROVE Carried!2'
    BY <1>2 DEF Carried, Alone
  <2>1. x.buf = handle["tx"] /\ content[handle["tx"]] = number
    BY <1>2 DEF Mine, Alone, DInv, Carried
  <2>2. wire \in Seq({number}) /\ content[handle["rx"]] \in {0, number}
    BY DEF DInv, Carried
  <2>3. wire' = Append(wire, number)
    BY <1>1, <2>1
  <2>4. wire' \in Seq({number})
    BY <2>2, <2>3
  <2>5. QED  BY <1>1, <1>2, <2>1, <2>2, <2>4
<1>7. Holding' /\ Answered'
  BY <1>2 DEF DInv, Holding, Answered
<1>8. QED  BY <1>2, <1>5, <1>6, <1>7 DEF DInv

LEMMA ReceiveData == DInv /\ Receive => DInv'
<1> SUFFICES ASSUME DInv, Receive PROVE DInv'
  OBVIOUS
<1> DEFINE x == Head(issued["rx"])
<1>1. /\ "rx" \in Chans /\ issued["rx"] # <<>> /\ Finish("rx") /\ wire # <<>>
      /\ wire' = Tail(wire) /\ content' = [content EXCEPT ![x.buf] = Head(wire)]
  BY DEF Receive, Chans
<1>2. /\ UNCHANGED <<alive, handle, mapped, vma, submitted, call, number, stale, answer>>
      /\ x \in Mine("rx") /\ Pointing' /\ issued' = [e \in Chans |-> issued'[e]]
  BY <1>1, FinishDoes
<1> HIDE DEF x
<1>3. x.buf \in Addr /\ wire \in Seq(Nat) /\ content \in [Addr -> Nat]
  BY <1>2 DEF Mine, DInv, Memories
<1>4. wire' \in Seq(Nat) /\ Head(wire) \in Nat
  BY <1>1, <1>3, HeadTail
<1>5. /\ content' \in [Addr -> Nat] /\ content'[x.buf] = Head(wire)
      /\ \A a \in Addr : a # x.buf => content'[a] = content[a]
  BY <1>1, <1>3, <1>4
<1>6. Memories'
  BY <1>2, <1>4, <1>5 DEF DInv, Memories
<1>7. Carried'
  <2> SUFFICES ASSUME Alone PROVE Carried!2'
    BY <1>2 DEF Carried, Alone
  <2>1. /\ x.buf = handle["rx"] /\ handle["tx"] # handle["rx"]
        /\ handle["tx"] \in Addr /\ content[handle["tx"]] = number /\ wire \in Seq({number})
    BY <1>2 DEF Mine, Alone, DInv, Carried, Holding, Memories, Chans
  <2>2. Head(wire) = number /\ wire' \in Seq({number})
    BY <1>1, <2>1, HeadTail
  <2>3. content'[handle["tx"]] = number /\ content'[handle["rx"]] = number
    BY <1>5, <2>1, <2>2
  <2>4. QED  BY <1>2, <2>2, <2>3
<1>8. Holding' /\ Answered'
  BY <1>2 DEF DInv, Holding, Answered
<1>9. QED  BY <1>2, <1>6, <1>7, <1>8 DEF DInv

(* A step of a call that leaves buffers, descriptors and data alone.        *)
LEMMA Onward ==
  ASSUME DInv, UNCHANGED <<bufferVars, submitted, issued, wire, number, stale>>, Answered',
         call' = [pc |-> call'.pc, kind |-> call'.kind, refused |-> call'.refused, won |-> call'.won],
         call'.kind = call.kind, call'.pc = "out" \/ call.pc # "out" \/ call'.pc = call.pc
  PROVE  DInv'
<1>1. Memories'
  BY DEF DInv, Memories, bufferVars
<1>2. Pointing'
  BY MineSame, Points DEF bufferVars
<1>3. Holding' /\ Carried'
  BY DEF DInv, Holding, Carried, Alone, bufferVars
<1>4. QED  BY <1>1, <1>2, <1>3 DEF DInv

LEMMA ControlData ==
  DInv /\ (Callback \/ Check \/ Completed \/ TimeOut \/ MmapReturn \/ UNCHANGED dmaVars) => DInv'
<1> SUFFICES ASSUME DInv PROVE Callback \/ Check \/ Completed \/ TimeOut \/ MmapReturn \/ UNCHANGED dmaVars => DInv'
  OBVIOUS
<1>1. call = [pc |-> call.pc, kind |-> call.kind, refused |-> call.refused, won |-> call.won]
  BY DEF DInv, Memories
<1>2. CASE Callback \/ UNCHANGED dmaVars
  <2>1. /\ UNCHANGED <<bufferVars, submitted, issued, wire, number, stale, answer, call>>
    BY <1>2 DEF Callback, dmaVars, engineVars, dmaHistory
  <2>2. Answered'
    BY <2>1 DEF DInv, Answered
  <2>3. QED  BY <1>1, <2>1, <2>2, Onward
<1>3. CASE Completed \/ TimeOut \/ MmapReturn
  <2>1. /\ UNCHANGED <<bufferVars, submitted, issued, wire, number, stale, answer>>
        /\ call.pc \in {"wait", "done"}
        /\ \/ call' = [call EXCEPT !.pc = "done", !.won = TRUE]
           \/ call' = [call EXCEPT !.pc = "done"]
           \/ call' = [call EXCEPT !.pc = "out"]
    BY <1>3 DEF Completed, TimeOut, MmapReturn, Goto, engineVars, dmaHistory
  <2>2. Answered'
    BY <2>1 DEF DInv, Answered
  <2>3. /\ call' = [pc |-> call'.pc, kind |-> call'.kind, refused |-> call'.refused, won |-> call'.won]
        /\ call'.kind = call.kind
    BY <1>1, <2>1
  <2>4. QED  BY <2>1, <2>2, <2>3, Onward
<1>4. CASE Check
  <2>1. /\ UNCHANGED <<bufferVars, submitted, issued, wire, number, stale>>
        /\ call.pc = "check"
        /\ \/ call' = [call EXCEPT !.pc = "out"] /\ answer' = <<"EIO">>
           \/ call' = [call EXCEPT !.pc = "init_rx"] /\ answer' = answer
    BY <1>4 DEF Check, Goto, engineVars
  <2>2. Answered'
    BY <2>1 DEF DInv, Answered
  <2>3. /\ call' = [pc |-> call'.pc, kind |-> call'.kind, refused |-> call'.refused, won |-> call'.won]
        /\ call'.kind = call.kind
    BY <1>1, <2>1
  <2>4. QED  BY <2>1, <2>2, <2>3, Onward
<1>5. QED  BY <1>2, <1>3, <1>4

(* A descriptor is submitted with the buffer that the handle points to.     *)
LEMMA SubmitData ==
  ASSUME DInv, NEW d \in Chans, NEW from, NEW to, Submit(d, from, to), from # "out"
  PROVE  DInv'
<1>1. /\ UNCHANGED <<bufferVars, issued, wire, number, stale, answer>> /\ call.pc # "out"
      /\ call' \in {[call EXCEPT !.pc = to], [call EXCEPT !.pc = to, !.refused = TRUE]}
  BY DEF Submit, Goto, dmaHistory
<1>2. /\ call = [pc |-> call.pc, kind |-> call.kind, refused |-> call.refused, won |-> call.won]
      /\ \A e \in Chans : submitted[e] \in Seq(Mine(e)) /\ issued[e] \in Seq(Mine(e))
      /\ submitted = [e \in Chans |-> submitted[e]] /\ issued = [e \in Chans |-> issued[e]]
  BY DEF DInv, Memories, Pointing
<1>3. /\ call' = [pc |-> call'.pc, kind |-> call'.kind, refused |-> call'.refused, won |-> call'.won]
      /\ call'.kind = call.kind
  BY <1>1, <1>2
<1>4. Answered' /\ Holding' /\ Carried'
  BY <1>1, <1>3 DEF DInv, Answered, Holding, Carried, Alone, bufferVars
<1>5. CASE submitted' = submitted
  BY <1>1, <1>3, <1>4, <1>5, Onward
<1>6. CASE /\ handle[d] # Null
           /\ submitted' = [submitted EXCEPT ![d] = Append(@, [buf |-> handle[d], no |-> number])]
  <2> DEFINE x == [buf |-> handle[d], no |-> number]
  <2>1. x \in Mine(d)
    BY <1>6 DEF Mine, DInv, Memories
  <2> HIDE DEF x
  <2>2. /\ submitted' = [e \in Chans |-> submitted'[e]]
        /\ \A e \in Chans : submitted'[e] = IF e = d THEN Append(submitted[d], x) ELSE submitted[e]
    BY <1>2, <1>6 DEF x
  <2>3. Append(submitted[d], x) \in Seq(Mine(d))
    BY <1>2, <2>1
  <2>4. \A e \in Chans : submitted'[e] \in Seq(Mine(e))
    BY <1>2, <2>2, <2>3
  <2>5. \A e \in Chans : Mine(e) \subseteq Mine(e)'
    BY <1>1, MineSame DEF bufferVars
  <2>6. Pointing'
    <3> SUFFICES ASSUME NEW e \in Chans
                 PROVE  submitted'[e] \in Seq(Mine(e)') /\ issued'[e] \in Seq(Mine(e)')
      BY DEF Pointing
    <3>1. submitted'[e] \in Seq(Mine(e)) /\ issued[e] \in Seq(Mine(e)) /\ Mine(e) \subseteq Mine(e)'
      BY <1>2, <2>4, <2>5
    <3>2. submitted'[e] \in Seq(Mine(e)') /\ issued[e] \in Seq(Mine(e)')
      BY <3>1, Wider
    <3>3. QED  BY <1>1, <3>2
  <2>7. Memories'
    BY <1>1, <1>3, <2>2 DEF DInv, Memories, bufferVars
  <2>8. QED  BY <1>4, <2>6, <2>7 DEF DInv
<1>7. QED  BY <1>5, <1>6 DEF Submit

LEMMA PrepareData ==
  ASSUME DInv, NEW d \in Chans, NEW from, NEW to, Prepare(d, from, to), from # "out"
  PROVE  DInv'
<1>1. /\ UNCHANGED <<bufferVars, submitted, issued, wire, number, stale, answer>>
      /\ call' = [call EXCEPT !.pc = to] /\ call.pc # "out"
  BY DEF Prepare, Goto, dmaHistory
<1>2. /\ call' = [pc |-> call'.pc, kind |-> call'.kind, refused |-> call'.refused, won |-> call'.won]
      /\ call'.kind = call.kind
  BY <1>1 DEF DInv, Memories
<1>3. Answered'
  BY <1>1 DEF DInv, Answered
<1>4. QED  BY <1>1, <1>2, <1>3, Onward

LEMMA IssueData ==
  ASSUME DInv, NEW d \in Chans, NEW from, NEW to, Issue(d, from, to), from # "out"
  PROVE  DInv'
<1>1. /\ UNCHANGED <<bufferVars, wire, number, stale, answer>>
      /\ call' = [call EXCEPT !.pc = to] /\ call.pc # "out"
      /\ issued' = [issued EXCEPT ![d] = @ \o submitted[d]]
      /\ submitted' = [submitted EXCEPT ![d] = <<>>]
  BY DEF Issue, Goto, dmaHistory
<1>2. /\ call' = [pc |-> call'.pc, kind |-> call'.kind, refused |-> call'.refused, won |-> call'.won]
      /\ call'.kind = call.kind
  BY <1>1 DEF DInv, Memories
<1>3. /\ \A e \in Chans : submitted[e] \in Seq(Mine(e)) /\ issued[e] \in Seq(Mine(e))
      /\ submitted = [e \in Chans |-> submitted[e]] /\ issued = [e \in Chans |-> issued[e]]
  BY DEF DInv, Memories, Pointing
<1>4. /\ submitted' = [e \in Chans |-> submitted'[e]] /\ issued' = [e \in Chans |-> issued'[e]]
      /\ \A e \in Chans : submitted'[e] = IF e = d THEN <<>> ELSE submitted[e]
      /\ \A e \in Chans : issued'[e] = IF e = d THEN issued[d] \o submitted[d] ELSE issued[e]
  BY <1>1, <1>3
<1>5. issued[d] \o submitted[d] \in Seq(Mine(d)) /\ <<>> \in Seq(Mine(d))
  BY <1>3, Joined
<1>6. Pointing'
  <2> SUFFICES ASSUME NEW e \in Chans
               PROVE  submitted'[e] \in Seq(Mine(e)') /\ issued'[e] \in Seq(Mine(e)')
    BY DEF Pointing
  <2>1. submitted'[e] \in Seq(Mine(e)) /\ issued'[e] \in Seq(Mine(e))
    BY <1>3, <1>4, <1>5
  <2>2. Mine(e) \subseteq Mine(e)'
    BY <1>1, MineSame DEF bufferVars
  <2>3. QED  BY <2>1, <2>2, Wider
<1>7. Memories'
  BY <1>1, <1>2, <1>4 DEF DInv, Memories, bufferVars
<1>8. Answered' /\ Holding' /\ Carried'
  BY <1>1, <1>2 DEF DInv, Answered, Holding, Carried, Alone, bufferVars
<1>9. QED  BY <1>6, <1>7, <1>8 DEF DInv

-----------------------------------------------------------------------------
(* What dma_alloc_coherent gives.                                          *)
LEMMA LeastIn ==
  ASSUME NEW s \in SUBSET Nat, s # {}
  PROVE  Least(s) \in s
<1> DEFINE R == OpToRel(<, Nat)
<1>1. \A x, y \in Nat : <<y, x>> \in R <=> y < x
  BY DEF OpToRel
<1>2. PICK x \in s : \A y \in s : ~ (<<y, x>> \in R)
  <2>1. IsWellFoundedOn(R, Nat)
    BY NatLessThanWellFounded, Zenon
  <2> HIDE DEF R
  <2>2. QED BY <2>1, WFMin
<1> HIDE DEF R
<1>3. \A y \in s : x <= y
  <2> SUFFICES ASSUME NEW y \in s PROVE x <= y
    OBVIOUS
  <2>1. x \in Nat /\ y \in Nat
    OBVIOUS
  <2>2. ~ (y < x)
    BY <1>1, <1>2, <2>1, Zenon
  <2>3. QED  BY <2>1, <2>2
<1>4. QED BY <1>3 DEF Least

(* Buffers of their own, out of what is free.                              *)
LEMMA TakenIn ==
  ASSUME NEW got \in SUBSET Chans, Fits(got), alive \subseteq Addr, Null \notin Nat
  PROVE  /\ Taken(got) \in [Chans -> Addr \union {Null}]
         /\ \A d \in got : Taken(got)[d] \in Addr
         /\ \A d \in Chans \ got : Taken(got)[d] = Null
         /\ got = Chans => Taken(got)["tx"] # Taken(got)["rx"]
<1> DEFINE free == Addr \ alive
           t    == IF "tx" \in got THEN Least(free) ELSE Null
           rest == Addr \ (alive \union {t})
           b    == Taken(got)
<1>1. /\ IsFiniteSet(free) /\ free \in SUBSET Nat /\ rest \in SUBSET Nat /\ rest = free \ {t}
      /\ Cardinality(free) \in Nat /\ Cardinality(got) \in Nat /\ IsFiniteSet(got)
      /\ Cardinality(free) >= Cardinality(got) /\ Chans = {"tx", "rx"}
  <2>1. IsFiniteSet(Addr) /\ Addr \subseteq Nat
    BY DmaAssumption, FS_Interval DEF Addr
  <2>2. IsFiniteSet(free)
    BY <2>1, FS_Subset
  <2>3. IsFiniteSet(Chans)
    <3>1. IsFiniteSet({"tx"})
      BY FS_Singleton
    <3>2. IsFiniteSet({"tx"} \union {"rx"}) /\ {"tx"} \union {"rx"} = Chans
      BY <3>1, FS_AddElement DEF Chans
    <3>3. QED  BY <3>2
  <2>4. IsFiniteSet(got)
    BY <2>3, FS_Subset
  <2>5. QED  BY <2>1, <2>2, <2>4, FS_CardinalityType DEF Fits, Chans
<1>2. ASSUME "tx" \in got PROVE t \in free
  <2>1. free # {}
    <3>1. got # {}
      BY <1>2
    <3>2. Cardinality(got) # 0
      BY <1>1, <3>1, FS_EmptySet
    <3>3. Cardinality(free) # 0
      BY <1>1, <3>2
    <3>4. QED  BY <1>1, <3>3, FS_EmptySet
  <2>2. QED  BY <1>1, <1>2, <2>1, LeastIn
<1>3. ASSUME "rx" \in got PROVE Least(rest) \in rest
  <2>1. rest # {}
    <3>1. CASE "tx" \in got
      <4>1. got = Chans /\ t \in free
        BY <1>1, <1>2, <1>3, <3>1
      <4>2. Cardinality(got) = 2
        <5>1. Cardinality({"tx"}) = 1 /\ IsFiniteSet({"tx"})
          BY FS_Singleton
        <5>2. Cardinality({"tx"} \union {"rx"}) = 2
          <6>1. "rx" \notin {"tx"} /\ 1 + 1 = 2
            OBVIOUS
          <6>2. Cardinality({"tx"} \union {"rx"}) = Cardinality({"tx"}) + 1
            BY ONLY <5>1, <6>1, FS_AddElement
          <6>3. QED  BY ONLY <5>1, <6>2
        <5>3. {"tx"} \union {"rx"} = got
          BY <1>1, <4>1
        <5>4. QED  BY <5>2, <5>3
      <4> HIDE DEF free, t, rest
      <4>3. Cardinality(free \ {t}) = Cardinality(free) - 1 /\ IsFiniteSet(free \ {t})
        BY <1>1, <4>1, FS_RemoveElement
      <4>4. Cardinality(rest) # 0 /\ IsFiniteSet(rest)
        BY <1>1, <4>2, <4>3
      <4>5. QED  BY <4>4, FS_EmptySet
    <3>2. CASE "tx" \notin got
      <4>1. rest = free
        BY <1>1, <3>2
      <4>2. Cardinality(got) # 0
        BY <1>1, <1>3, FS_EmptySet
      <4>3. Cardinality(free) # 0
        BY <1>1, <4>2
      <4>4. free # {}
        BY <1>1, <4>3, FS_EmptySet
      <4>5. QED  BY <4>1, <4>4
    <3>3. QED  BY <3>1, <3>2
  <2>2. QED  BY <1>1, <2>1, LeastIn
<1>4. b = [d \in Chans |-> IF d = "tx" THEN t ELSE IF "rx" \in got THEN Least(rest) ELSE Null]
  BY DEF Taken
<1>5. /\ b["tx"] = t /\ b["rx"] = (IF "rx" \in got THEN Least(rest) ELSE Null)
  BY <1>1, <1>4
<1>6. free \subseteq Addr /\ rest \subseteq Addr /\ t \notin rest
  OBVIOUS
<1>7. b["tx"] \in Addr \union {Null} /\ b["rx"] \in Addr \union {Null}
  BY <1>2, <1>3, <1>5, <1>6
<1> HIDE DEF free, rest, b
<1>8. b \in [Chans -> Addr \union {Null}]
  BY <1>1, <1>4, <1>5, <1>7
<1>9. \A d \in got : b[d] \in Addr
  BY <1>1, <1>2, <1>3, <1>5, <1>6
<1>10. \A d \in Chans \ got : b[d] = Null
  BY <1>1, <1>5
<1>11. got = Chans => b["tx"] # b["rx"]
  BY <1>1, <1>2, <1>3, <1>5, <1>6
<1>12. QED  BY <1>8, <1>9, <1>10, <1>11 DEF b

-----------------------------------------------------------------------------
(* A call begins: from here on its number is new and no descriptor has it.  *)
LEMMA EnterDoes ==
  ASSUME DInv, NEW kind \in {"test", "mmap"}, Enter(kind, "submit_tx"),
         UNCHANGED <<submitted, issued, wire>>, handle' \in [Chans -> Addr \union {Null}]
  PROVE  /\ number' = number + 1 /\ answer' = <<>> /\ stale' \in [Chans -> BOOLEAN]
         /\ call' = [pc |-> "submit_tx", kind |-> kind, refused |-> FALSE, won |-> FALSE]
         /\ call.pc = "out" /\ Pointing'
         /\ (\E d \in Chans : ~stale'[d]) => wire = <<>>
<1>1. /\ number' = number + 1 /\ answer' = <<>> /\ call.pc = "out"
      /\ call' = [pc |-> "submit_tx", kind |-> kind, refused |-> FALSE, won |-> FALSE]
      /\ stale' = [d \in Chans |-> \/ submitted[d] # <<>> \/ issued[d] # <<>>
                                   \/ callbacks[d] > 0 \/ wire # <<>>]
  BY DEF Enter
<1>2. \A d \in Chans : ~stale'[d] => wire = <<>> /\ submitted[d] = <<>> /\ issued[d] = <<>>
  BY <1>1
<1>3. stale' \in [Chans -> BOOLEAN]
  BY <1>1
<1>4. Pointing'
  <2> SUFFICES ASSUME NEW d \in Chans
               PROVE  submitted'[d] \in Seq(Mine(d)') /\ issued'[d] \in Seq(Mine(d)')
    BY DEF Pointing
  <2>1. submitted[d] \in Seq(Mine(d)) /\ issued[d] \in Seq(Mine(d))
    BY DEF DInv, Pointing
  <2>2. CASE ~stale'[d]
    <3>1. \A S : <<>> \in Seq(S)
      OBVIOUS
    <3>2. submitted'[d] = <<>> /\ issued'[d] = <<>>
      BY <1>2, <2>2
    <3>3. QED  BY <3>1, <3>2, Zenon
  <2>3. CASE stale'[d]
    <3>1. \A x \in Mine(d) : x.no <= number' /\ x.no # number'
      BY <1>1 DEF Mine, DInv, Memories
    <3>2. Mine(d) \subseteq Mine(d)'
      BY <2>3, <3>1 DEF Mine
    <3>3. QED  BY <2>1, <3>2, Wider
  <2>4. QED  BY <1>3, <2>2, <2>3
<1>5. QED  BY <1>1, <1>2, <1>3, <1>4

LEMMA TestData == DInv /\ TestCall => DInv'
<1> SUFFICES ASSUME DInv, TestCall PROVE DInv'
  OBVIOUS
<1> DEFINE b == Taken(Chans)
<1>1. /\ vma = "none" /\ Enter("test", "submit_tx") /\ Fits(Chans)
      /\ alive' = alive \union Given(b) /\ content' = [Zeroed(b) EXCEPT ![b["tx"]] = number']
      /\ handle' = Handles(b)
      /\ UNCHANGED <<mapped, vma, submitted, issued, wire>>
  BY DEF TestCall, engineVars
<1>2. /\ b["tx"] \in Addr /\ b["rx"] \in Addr /\ b["tx"] # b["rx"]
  <2>1. Chans \in SUBSET Chans /\ alive \subseteq Addr /\ Null \notin Nat /\ "tx" \in Chans /\ "rx" \in Chans
    BY DmaAssumption DEF Chans, DInv, Memories
  <2>2. QED  BY <1>1, <2>1, TakenIn
<1> HIDE DEF b
<1>3. Addr \subseteq Nat /\ Null \notin Nat /\ Chans = {"tx", "rx"}
  BY DmaAssumption DEF Addr, Chans
<1>4. /\ handle' \in [Chans -> Addr \union {Null}]
      /\ handle'["tx"] = b["tx"] /\ handle'["rx"] = b["rx"]
  <2>1. \A d \in Chans : b[d] # Null /\ b[d] \in Addr
    BY <1>2, <1>3
  <2>2. handle' = [d \in Chans |-> b[d]]
    BY <1>1, <2>1 DEF Handles
  <2>3. QED  BY <1>3, <2>1, <2>2
<1>5. /\ number' = number + 1 /\ answer' = <<>> /\ stale' \in [Chans -> BOOLEAN]
      /\ call' = [pc |-> "submit_tx", kind |-> "test", refused |-> FALSE, won |-> FALSE]
      /\ Pointing' /\ ((\E d \in Chans : ~stale'[d]) => wire = <<>>)
  BY <1>1, <1>4, EnterDoes
<1>6. Given(b) = {b["tx"], b["rx"]}
  BY <1>2, <1>3 DEF Given
<1>7. number' \in Nat
  BY <1>5 DEF DInv, Memories
<1>8. /\ content' \in [Addr -> Nat] /\ content'[b["tx"]] = number' /\ content'[b["rx"]] = 0
  <2>1. /\ Zeroed(b) \in [Addr -> Nat] /\ Zeroed(b)[b["rx"]] = 0
    BY <1>2, <1>6 DEF Zeroed, DInv, Memories
  <2>2. QED  BY <1>1, <1>2, <1>7, <2>1
<1>9. alive' \subseteq Addr /\ b["tx"] \in alive' /\ b["rx"] \in alive'
  BY <1>1, <1>2, <1>6 DEF DInv, Memories
<1>10. Memories'
  BY <1>1, <1>4, <1>5, <1>7, <1>8, <1>9 DEF DInv, Memories
<1>11. Holding' /\ Answered'
  BY <1>1, <1>2, <1>3, <1>4, <1>5, <1>9 DEF Holding, Answered
<1>12. Carried'
  <2> SUFFICES ASSUME Alone' PROVE Carried!2'
    BY DEF Carried
  <2>1. wire' = <<>>
    BY <1>1, <1>3, <1>5 DEF Alone
  <2>2. wire' \in Seq({number'})
    BY <2>1
  <2>3. QED  BY <1>4, <1>8, <2>2
<1>13. QED  BY <1>5, <1>10, <1>11, <1>12 DEF DInv

LEMMA MmapCallData == DInv /\ MmapCall => DInv'
<1> SUFFICES ASSUME DInv, MmapCall PROVE DInv'
  OBVIOUS
<1>1. /\ vma # "none" /\ Enter("mmap", "submit_tx")
      /\ content' = IF vma = "mapped" THEN [content EXCEPT ![mapped["tx"]] = number'] ELSE content
      /\ UNCHANGED <<alive, handle, mapped, vma, submitted, issued, wire>>
  BY DEF MmapCall, engineVars
<1>2. /\ number' = number + 1 /\ answer' = <<>> /\ stale' \in [Chans -> BOOLEAN]
      /\ call' = [pc |-> "submit_tx", kind |-> "mmap", refused |-> FALSE, won |-> FALSE]
      /\ Pointing'
  <2>1. handle' \in [Chans -> Addr \union {Null}]
    BY <1>1 DEF DInv, Memories
  <2>2. QED  BY <1>1, <2>1, EnterDoes
<1>3. number' \in Nat /\ content' \in [Addr -> Nat]
  <2>1. number' \in Nat /\ content \in [Addr -> Nat]
    BY <1>2 DEF DInv, Memories
  <2>2. [content EXCEPT ![mapped["tx"]] = number'] \in [Addr -> Nat]
    BY <2>1
  <2>3. QED  BY <1>1, <2>1, <2>2
<1>4. Memories'
  BY <1>1, <1>2, <1>3 DEF DInv, Memories
<1>5. Holding' /\ Carried' /\ Answered'
  BY <1>1, <1>2 DEF DInv, Holding, Carried, Alone, Answered
<1>6. QED  BY <1>2, <1>4, <1>5 DEF DInv

(* The buffers that a mapping gets, whole or in part, or a failed call.     *)
LEMMA GotDoes ==
  ASSUME DInv, NEW got \in SUBSET Chans, Fits(got)
  PROVE  /\ Handles(Taken(got)) \in [Chans -> Addr \union {Null}]
         /\ Taken(got) \in [Chans -> Addr \union {Null}]
         /\ Zeroed(Taken(got)) \in [Addr -> Nat]
         /\ Given(Taken(got)) \subseteq Addr
         /\ got = Chans => \A d \in Chans : /\ Handles(Taken(got))[d] = Taken(got)[d]
                                            /\ Taken(got)[d] \in Given(Taken(got))
<1> DEFINE b == Taken(got)
<1>1. /\ b \in [Chans -> Addr \union {Null}] /\ \A d \in got : b[d] \in Addr
  <2>1. alive \subseteq Addr /\ Null \notin Nat
    BY DmaAssumption DEF DInv, Memories
  <2>2. QED  BY <2>1, TakenIn
<1>2. Addr \subseteq Nat /\ Null \notin Nat
  BY DmaAssumption DEF Addr
<1> HIDE DEF b
<1>3. Handles(b) \in [Chans -> Addr \union {Null}]
  BY <1>1 DEF Handles, DInv, Memories
<1>4. Given(b) \subseteq Addr /\ Zeroed(b) \in [Addr -> Nat]
  BY <1>1 DEF Given, Zeroed, DInv, Memories
<1>5. ASSUME got = Chans PROVE \A d \in Chans : Handles(b)[d] = b[d] /\ b[d] \in Given(b)
  <2>1. \A d \in Chans : b[d] # Null
    BY <1>1, <1>2, <1>5
  <2>2. QED  BY <2>1 DEF Handles, Given
<1>6. QED  BY <1>1, <1>3, <1>4, <1>5 DEF b

LEMMA MemoryData == DInv /\ (TestNoMemory \/ Mmap \/ Munmap) => DInv'
<1> SUFFICES ASSUME DInv, TestNoMemory \/ Mmap \/ Munmap PROVE DInv'
  OBVIOUS
<1>1. /\ call.pc = "out" /\ UNCHANGED <<submitted, issued, wire, call, number, stale, answer>>
  BY DEF TestNoMemory, Mmap, Munmap, engineVars, dmaHistory
<1>2. \A d \in Chans : Mine(d)' = Mine(d)
  BY <1>1 DEF Mine
<1>3. Pointing' /\ Carried' /\ Answered'
  BY <1>1, <1>2 DEF DInv, Pointing, Carried, Alone, Answered
<1>4. CASE TestNoMemory
  <2>1. PICK got \in SUBSET Chans :
          /\ Fits(got) /\ alive' = alive \union Given(Taken(got))
          /\ content' = Zeroed(Taken(got)) /\ handle' = Handles(Taken(got))
          /\ vma = "none" /\ vma' = vma /\ mapped' = mapped
    BY <1>4 DEF TestNoMemory
  <2>2. /\ handle' \in [Chans -> Addr \union {Null}] /\ content' \in [Addr -> Nat]
        /\ alive' \subseteq Addr
    BY <2>1, GotDoes DEF DInv, Memories
  <2>3. Memories' /\ Holding'
    BY <1>1, <2>1, <2>2 DEF DInv, Memories, Holding
  <2>4. QED  BY <1>3, <2>3 DEF DInv
<1>5. CASE Mmap
  <2>1. PICK got \in SUBSET Chans :
          /\ Fits(got) /\ alive' = alive \union Given(Taken(got))
          /\ content' = Zeroed(Taken(got)) /\ handle' = Handles(Taken(got))
          /\ mapped' = Taken(got)
          /\ vma' \in (IF got = Chans THEN {"mapped", "refused"} ELSE {"refused"})
    BY <1>5 DEF Mmap, Mapping
  <2>2. /\ handle' \in [Chans -> Addr \union {Null}] /\ content' \in [Addr -> Nat]
        /\ alive' \subseteq Addr /\ mapped' \in [Chans -> Addr \union {Null}]
    BY <2>1, GotDoes DEF DInv, Memories
  <2>3. vma' \in {"mapped", "refused"} /\ (vma' = "mapped" => got = Chans)
    BY <2>1
  <2>4. vma' = "mapped" => \A d \in Chans : handle'[d] = mapped'[d] /\ mapped'[d] \in alive'
    BY <2>1, <2>3, GotDoes
  <2>5. Memories' /\ Holding'
    BY <1>1, <2>2, <2>3, <2>4 DEF DInv, Memories, Holding
  <2>6. QED  BY <1>3, <2>5 DEF DInv
<1>6. CASE Munmap
  <2>1. /\ vma' = "none" /\ UNCHANGED <<content, handle, mapped>> /\ alive' \subseteq alive
    BY <1>6 DEF Munmap
  <2>2. Memories' /\ Holding'
    BY <1>1, <2>1 DEF DInv, Memories, Holding
  <2>3. QED  BY <1>3, <2>2 DEF DInv
<1>7. QED  BY <1>4, <1>5, <1>6

(* A call that returns 0 has its own data in its own buffer.               *)
LEMMA TestReturnData == DInv /\ TestReturn => DInv'
<1> SUFFICES ASSUME DInv, TestReturn PROVE DInv'
  OBVIOUS
<1>1. /\ call.pc = "done" /\ call.kind = "test" /\ call' = [call EXCEPT !.pc = "out"]
      /\ answer' = <<IF Same THEN "OK" ELSE "EIO", content[handle["rx"]]>>
      /\ alive' \subseteq alive
      /\ UNCHANGED <<content, handle, mapped, vma, submitted, issued, wire, number, stale>>
  BY DEF TestReturn, Goto, engineVars
<1>2. /\ call' = [pc |-> call'.pc, kind |-> call'.kind, refused |-> call'.refused, won |-> call'.won]
      /\ call'.pc = "out"
  BY <1>1 DEF DInv, Memories
<1>3. Memories'
  BY <1>1, <1>2 DEF DInv, Memories
<1>4. Pointing'
  BY <1>1, <1>2, MineSame, Points
<1>5. Holding' /\ Carried'
  BY <1>1, <1>2 DEF DInv, Holding, Carried, Alone
<1>6. Answered'
  <2>1. answer'[1] = (IF Same THEN "OK" ELSE "EIO") /\ answer'[2] = content[handle["rx"]]
    BY <1>1
  <2>2. Alone /\ Same => content[handle["rx"]] = number
    BY DEF DInv, Carried, Same
  <2>3. ~stale["tx"] /\ ~stale["rx"] => Alone
    BY <1>1 DEF Alone
  <2>4. QED  BY <1>1, <2>1, <2>2, <2>3 DEF Answered
<1>7. QED  BY <1>3, <1>4, <1>5, <1>6 DEF DInv

LEMMA DataStep == DInv /\ [DmaNext]_dmaVars => DInv'
<1> SUFFICES ASSUME DInv, [DmaNext]_dmaVars PROVE DInv'
  OBVIOUS
<1>1. "tx" \in Chans /\ "rx" \in Chans
  BY DEF Chans
<1>2. CASE Engine \/ UNCHANGED dmaVars
  BY <1>2, TransmitData, ReceiveData, ControlData DEF Engine
<1>3. CASE SubmitTx \/ SubmitRx
  BY <1>1, <1>3, SubmitData DEF SubmitTx, SubmitRx
<1>4. CASE StartRx \/ StartTx
  BY <1>1, <1>4, PrepareData, IssueData DEF StartRx, StartTx
<1>5. CASE Called
  BY <1>3, <1>4, <1>5, ControlData, TestReturnData DEF Called
<1>6. QED
  BY <1>2, <1>5, TestData, MmapCallData, MemoryData DEF DmaNext

(* For any memory and any number of calls: a call moves its own data        *)
(* between its own buffers, which stay allocated as long as it lasts; the   *)
(* test of axidma_example3.c succeeds on its own data only.                 *)
THEOREM DataIsOwn == DmaSpec => []OwnData
<1>1. DInv => OwnData
  <2> SUFFICES ASSUME DInv PROVE OwnData
    OBVIOUS
  <2>1. InBuffers
    <3> SUFFICES ASSUME call.pc # "out", vma # "refused", NEW d \in Chans,
                        NEW q \in {submitted[d], issued[d]}, NEW i \in Own(q)
                 PROVE  /\ q[i].buf \in alive
                        /\ call.kind = "mmap" => q[i].buf = mapped[d]
      BY DEF InBuffers
    <3>1. q \in Seq(Mine(d))
      BY DEF DInv, Pointing
    <3>2. q[i] \in Mine(d) /\ q[i].no = number
      BY <3>1 DEF Own
    <3>3. q[i].buf = handle[d]
      BY <3>2 DEF Mine
    <3>4. QED  BY <3>3 DEF DInv, Holding, Memories
  <2>2. QED  BY <2>1 DEF OwnData, DInv, Answered
<1>2. QED  BY <1>1, DataStart, DataStep, PTL DEF DmaSpec
=============================================================================
