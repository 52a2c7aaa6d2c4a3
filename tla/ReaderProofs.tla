----------------------------- MODULE ReaderProofs -----------------------------
(***************************************************************************)
(* Theorems about Reader, for any number of bytes, any buffer size and any *)
(* number of notifications under way.                                      *)
(***************************************************************************)
EXTENDS Reader, SequenceTheorems, TLAPS

(* What the event underneath a reader looks like, by the steps of          *)
(* ntt_reader_start that are done: nothing before it is started, then one  *)
(* side that is taken while its handler runs, told once, and blank again.  *)
Blank == /\ phase = "none" /\ interest = {} /\ order = <<>>
         /\ notified = {} /\ taken = {} /\ running = {} /\ told = <<>>

EventOK ==
    /\ notified \subseteq {"readable"}
    /\ running \subseteq taken /\ taken \subseteq {"readable"}
    /\ running = IF at = "out" THEN {} ELSE {"readable"}
    /\ phase = "none" => Blank
    /\ phase # "none" => interest = {"readable"} /\ order = <<"readable">>
    /\ told = <<>> \/ (told = <<"readable">> /\ phase = "closed" /\ taken = {})

(* How far ntt_reader_start is, and what cannot have happened before.      *)
StartOK ==
    /\ queued <=> step >= 1
    /\ step < 3 => Blank /\ cancels = <<>>
    /\ step = 3 => phase = "open" /\ notified = {} /\ taken = {} /\ told = <<>>
    /\ watched => step = 4 /\ phase = "open"
    /\ edge => watched
    /\ fetched > 0 => step = 4

(* on_cancel, its code and the deletion.                                   *)
CancelOK ==
    /\ ec = IF failed THEN "errno" ELSE "zero"
    /\ cancels = <<>> \/ cancels = <<ec>>
    /\ cancels # <<>> <=> told # <<>> \/ (phase = "none" /\ step = 4)
    /\ ~alive => cancels # <<>>

(* The inductive invariant.                                                *)
Inv == TypeOK /\ EventOK /\ StartOK /\ CancelOK /\ InputKept /\ unread <= sent

-----------------------------------------------------------------------------
(* The four steps of ntt_reader_start, in their order.                     *)
LEMMA StartSteps ==
    ASSUME step \in 0..4
    PROVE  /\ Starting("queue") <=> step = 0
           /\ Starting("handle") <=> step = 1
           /\ Starting("refs") <=> step = 2
           /\ Starting("add") <=> step = 3
           /\ Len(StartOrder) = 4
  BY DEF Starting, StartOrder

(* Sequences of codes of length one.                                       *)
LEMMA OneCode ==
    ASSUME NEW x \in {"zero", "errno"}
    PROVE  /\ <<x>> \in Seq({"zero", "errno"}) /\ <<x>> # <<>> /\ Len(<<x>>) = 1
           /\ <<x>>[1] = x
           /\ Append(<<>>, x) = <<x>> /\ <<>> \in Seq({"zero", "errno"})
  OBVIOUS

LEMMA InitInv == Init => Inv
<1> SUFFICES ASSUME Init PROVE Inv
  OBVIOUS
<1>1. TypeOK
  <2>1. cancels \in Seq({"zero", "errno"})
    BY OneCode DEF Init
  <2>2. 0 \in 0..4 /\ 0 \in 0..MaxBytes /\ 0 \in 0..MaxFetched
    BY ReaderBounds
  <2> QED
    BY <2>1, <2>2, Zenon DEF Init, W!Init, TypeOK
<1>2. EventOK
  BY DEF Init, W!Init, EventOK, Blank
<1>3. StartOK
  BY DEF Init, W!Init, StartOK, Blank
<1>4. CancelOK
  BY DEF Init, W!Init, CancelOK
<1>5. InputKept
  BY DEF Init, InputKept
<1> QED
  BY <1>1, <1>2, <1>3, <1>4, <1>5 DEF Inv, Init

(* ntt_reader_start.                                                       *)
LEMMA StartStep ==
    ASSUME Inv, Start
    PROVE  Inv'
<1> USE StartSteps DEF Inv, TypeOK, event_vars, reader_vars, kernel_vars, ghost_vars
<1>1. CASE SetQueue
  BY <1>1 DEF SetQueue, EventOK, Blank, StartOK, CancelOK, InputKept
<1>2. CASE WriteHandle
  BY <1>2 DEF WriteHandle, EventOK, Blank, StartOK, CancelOK, InputKept
<1>3. CASE StartEvent
  BY <1>3 DEF StartEvent, W!Start, EventOK, Blank, StartOK, CancelOK, InputKept
<1>4. CASE EpollAdd
  BY <1>4 DEF EpollAdd, EventOK, Blank, StartOK, CancelOK, InputKept
<1> QED
  BY <1>1, <1>2, <1>3, <1>4 DEF Start

(* ntt_event_cancel as the reader calls it: the event is closed and the    *)
(* descriptor is out of epoll, or nothing changes.                         *)
LEMMA CancelEventEffect ==
    ASSUME Inv, CancelEvent
    PROVE  /\ UNCHANGED <<interest, order, notified, taken, running, told>>
           /\ \/ phase = "open" /\ phase' = "closed" /\ ~watched' /\ ~edge'
              \/ phase # "open" /\ UNCHANGED <<phase, watched, edge>> /\ ~watched
           /\ watched' \in BOOLEAN /\ edge' \in BOOLEAN
  BY DEF CancelEvent, W!Cancel, event_vars, Inv, StartOK, TypeOK

(* What a cancel keeps, wherever it is called from: all but the position   *)
(* of the handler and the code.                                            *)
LEMMA CancelKeeps ==
    ASSUME Inv, step = 4,
           UNCHANGED <<interest, order, notified, taken, running, told, step,
                       queued, handle, alive, sent, unread, input, fetched, cancels>>,
           \/ phase = "open" /\ phase' = "closed" /\ ~watched' /\ ~edge'
           \/ phase # "open" /\ UNCHANGED <<phase, watched, edge>> /\ ~watched,
           watched' \in BOOLEAN, edge' \in BOOLEAN,
           at' \in {"out", "read", "data", "leave"}, at = "out" <=> at' = "out",
           stopped' \in BOOLEAN, failed' \in BOOLEAN,
           ec' = (IF failed' THEN "errno" ELSE "zero"),
           UNCHANGED <<ec, failed>> \/ at # "out"
    PROVE  Inv'
<1>1. TypeOK'
  BY DEF Inv, TypeOK
<1>2. EventOK'
  BY DEF Inv, EventOK, Blank
<1>3. StartOK'
  BY DEF Inv, StartOK, Blank
<1>4. at # "out" => cancels = <<>>
  BY DEF Inv, CancelOK, EventOK, Blank
<1>5. CancelOK'
  BY <1>4 DEF Inv, CancelOK
<1>6. InputKept'
  BY DEF Inv, InputKept
<1> QED
  BY <1>1, <1>2, <1>3, <1>5, <1>6 DEF Inv

(* A handler runs only for a reader that was started.                      *)
LEMMA RunningIsStarted ==
    ASSUME Inv, at # "out"
    PROVE  step = 4 /\ phase # "none" /\ taken = {"readable"} /\ told = <<>>
<1>1. running = {"readable"} /\ taken = {"readable"}
  BY DEF Inv, EventOK
<1>2. phase # "none" /\ told = <<>>
  BY <1>1 DEF Inv, EventOK, Blank
<1>3. step = 4
  BY <1>1 DEF Inv, TypeOK, StartOK, Blank
<1> QED
  BY <1>1, <1>2, <1>3

(* ntt_reader_cancel, from any thread and from on_data.                    *)
LEMMA CancelStep ==
    ASSUME Inv, CancelReader \/ CancelFromData
    PROVE  Inv'
<1>1. /\ Cancel /\ step \in {0, 4} /\ at' \in {"out", "read", "data", "leave"}
      /\ at = "out" <=> at' = "out"
  BY StartSteps, RunningIsStarted
     DEF CancelReader, CancelFromData, AfterData, Inv, TypeOK
<1>2. CASE queued
  <2>1. CancelEvent /\ stopped' = queued
        /\ UNCHANGED <<step, queued, handle, ec, alive, sent, unread, input,
                       fetched, failed, cancels>>
    BY <1>1, <1>2 DEF Cancel, reader_vars
  <2>2. step = 4
    BY <1>1, <1>2 DEF Inv, StartOK
  <2>3. ec' = (IF failed' THEN "errno" ELSE "zero")
    BY <2>1 DEF Inv, CancelOK
  <2>4. stopped' \in BOOLEAN /\ failed' \in BOOLEAN
    BY <2>1 DEF Inv, TypeOK
  <2> QED
    BY <1>1, <2>1, <2>2, <2>3, <2>4, CancelEventEffect, CancelKeeps
<1>3. CASE ~queued
  <2>1. /\ UNCHANGED <<event_vars, watched, edge, step, reader_vars, sent, unread,
                       input, fetched, failed, cancels>>
        /\ stopped' \in BOOLEAN
    BY <1>1, <1>3 DEF Cancel, Inv, TypeOK
  <2>2. at' = at
    BY <1>1, <1>3, RunningIsStarted
       DEF CancelReader, CancelFromData, Inv, StartOK
  <2> QED
    BY <2>1, <2>2 DEF event_vars, reader_vars, Inv, TypeOK, EventOK, Blank,
       StartOK, CancelOK, InputKept
<1> QED
  BY <1>2, <1>3

(* A read that ends the reader.                                            *)
LEMMA ReadEndsStep ==
    ASSUME Inv, ReadEnd \/ ReadFails
    PROVE  Inv'
<1>1. /\ at = "read" /\ at' = "leave" /\ CancelEvent
      /\ UNCHANGED <<step, queued, handle, alive, sent, unread, input, fetched,
                     stopped, cancels>>
      /\ \/ UNCHANGED <<ec, failed>>
         \/ ec' = "errno" /\ failed' = TRUE
  BY DEF ReadEnd, ReadFails, FailedCode, reader_vars, ghost_vars
<1>2. step = 4
  BY <1>1, RunningIsStarted
<1>3. /\ stopped' \in BOOLEAN /\ failed' \in BOOLEAN
      /\ ec' = (IF failed' THEN "errno" ELSE "zero")
  <2>1. stopped' \in BOOLEAN /\ failed' \in BOOLEAN
    BY <1>1 DEF Inv, TypeOK
  <2>2. ec' = (IF failed' THEN "errno" ELSE "zero")
    BY <1>1 DEF Inv, CancelOK
  <2> QED
    BY <2>1, <2>2
<1> QED
  BY <1>1, <1>2, <1>3, CancelEventEffect, CancelKeeps

(* The rest of the handler.                                                *)
LEMMA HandlerStep ==
    ASSUME Inv, HandlerBegins \/ ReadData \/ ReadBlocks \/ DataReturns \/ HandlerReturns
    PROVE  Inv'
<1> USE DEF event_vars, reader_vars, kernel_vars, ghost_vars
<1>1. CASE HandlerBegins
  <2>1. /\ taken = {"readable"} /\ running = {} /\ running' = {"readable"}
        /\ UNCHANGED <<phase, interest, order, notified, taken, told, step, queued,
                       handle, ec, alive, sent, unread, input, watched, edge,
                       fetched, failed, stopped, cancels>>
        /\ at = "out" /\ at' = "read"
    BY <1>1 DEF HandlerBegins, W!Begin, Inv, EventOK
  <2> QED
    BY <2>1 DEF Inv, TypeOK, EventOK, Blank, StartOK, CancelOK, InputKept
<1>2. CASE ReadData
  <2>1. /\ UNCHANGED <<event_vars, step, reader_vars, sent, input, watched, edge,
                       fetched, ghost_vars>>
        /\ at = "read" /\ at' = "data" /\ unread' \in 0..MaxBytes
        /\ unread' <= sent
    BY <1>2, ReaderBounds DEF ReadData, Inv, TypeOK
  <2> QED
    BY <2>1 DEF Inv, TypeOK, EventOK, Blank, StartOK, CancelOK, InputKept
<1>3. CASE ReadBlocks
  <2>1. /\ UNCHANGED <<event_vars, step, reader_vars, kernel_vars, ghost_vars>>
        /\ at = "read" /\ at' = "leave" /\ unread = 0 /\ input = "open"
    BY <1>3 DEF ReadBlocks, WouldBlock
  <2> QED
    BY <2>1 DEF Inv, TypeOK, EventOK, Blank, StartOK, CancelOK, InputKept
<1>4. CASE DataReturns
  <2>1. /\ UNCHANGED <<event_vars, step, reader_vars, kernel_vars, ghost_vars>>
        /\ at = "data" /\ at' = "read"
    BY <1>4 DEF DataReturns, AfterData
  <2> QED
    BY <2>1 DEF Inv, TypeOK, EventOK, Blank, StartOK, CancelOK, InputKept
<1>5. CASE HandlerReturns
  <2>1. /\ running = {"readable"} /\ taken = {"readable"} /\ running' = {}
        /\ notified' = {}
        /\ taken' = IF notified = {"readable"} /\ phase = "open" THEN {"readable"} ELSE {}
        /\ notified = {} \/ notified = {"readable"}
        /\ at = "leave" /\ at' = "out"
        /\ UNCHANGED <<phase, interest, order, told, step, queued, handle, ec,
                       alive, sent, unread, input, watched, edge, fetched, failed,
                       stopped, cancels>>
    BY <1>5 DEF HandlerReturns, W!End, Inv, EventOK
  <2>2. step = 4 /\ phase # "none" /\ told = <<>>
    BY <2>1, RunningIsStarted
  <2>3. TypeOK' /\ EventOK' /\ StartOK' /\ CancelOK'
    BY <2>1, <2>2 DEF Inv, TypeOK, EventOK, Blank, StartOK, CancelOK
  <2>4. InputKept'
    BY <2>1, <2>2 DEF Inv, InputKept, StartOK
  <2> QED
    BY <2>1, <2>3, <2>4 DEF Inv
<1> QED
  BY <1>1, <1>2, <1>3, <1>4, <1>5

(* on_cancel, and the end of the event.                                    *)
LEMMA OverStep ==
    ASSUME Inv, OnCancel \/ FinishEvent
    PROVE  Inv'
<1> USE DEF event_vars, reader_vars, kernel_vars, ghost_vars
<1>1. CASE OnCancel
  <2>1. /\ phase = "closed" /\ taken = {} /\ Len(told) < Len(order)
        /\ told' = Append(told, order[Len(told) + 1])
        /\ cancels' = Append(cancels, ec) /\ alive' \in BOOLEAN
        /\ UNCHANGED <<phase, interest, order, notified, taken, running, step,
                       queued, handle, ec, at, sent, unread, input, watched,
                       edge, fetched, failed, stopped>>
    BY <1>1 DEF OnCancel, W!Tell
  <2>2. order = <<"readable">> /\ told = <<>> /\ told' = <<"readable">>
    <3>1. order = <<"readable">> /\ (told = <<>> \/ told = <<"readable">>)
      BY <2>1 DEF Inv, EventOK
    <3>2. told = <<>>
      BY <2>1, <3>1
    <3>3. told' = Append(<<>>, "readable")
      BY <2>1, <3>1, <3>2
    <3> QED
      BY <3>1, <3>2, <3>3
  <2>3. cancels = <<>>
    BY <2>1, <2>2 DEF Inv, CancelOK
  <2>4. cancels' = <<ec>> /\ cancels' \in Seq({"zero", "errno"}) /\ cancels' # <<>>
    BY <2>1, <2>3, OneCode DEF Inv, TypeOK
  <2>5. step = 4
    BY <2>1 DEF Inv, TypeOK, StartOK, Blank
  <2> QED
    BY <2>1, <2>2, <2>4, <2>5 DEF Inv, TypeOK, EventOK, Blank, StartOK, CancelOK, InputKept
<1>2. CASE FinishEvent
  <2>1. /\ phase = "closed" /\ told = order /\ Blank'
        /\ UNCHANGED <<step, queued, handle, ec, alive, at, sent, unread, input,
                       watched, edge, fetched, failed, stopped, cancels>>
    BY <1>2 DEF FinishEvent, W!Finish, Blank
  <2>2. told = <<"readable">> /\ taken = {} /\ running = {} /\ at = "out"
    BY <2>1 DEF Inv, EventOK, TypeOK
  <2>3. step = 4 /\ ~watched
    BY <2>1 DEF Inv, TypeOK, StartOK, Blank
  <2> QED
    BY <2>1, <2>2, <2>3 DEF Inv, TypeOK, EventOK, Blank, StartOK, CancelOK, InputKept
<1> QED
  BY <1>1, <1>2

(* The peer, the kernel and the workers that dispatch.                     *)
LEMMA KernelStep ==
    ASSUME Inv, Arrives \/ Fetch \/ Dispatch \/ Deliver
    PROVE  Inv'
<1> USE ReaderBounds DEF event_vars, reader_vars, kernel_vars, ghost_vars
<1>1. CASE Arrives
  <2>1. /\ sent' \in 0..MaxBytes /\ input' \in {"open", "eof", "error"}
        /\ edge' = watched
        /\ UNCHANGED <<event_vars, step, reader_vars, at, watched, fetched,
                       ghost_vars>>
    BY <1>1 DEF Arrives, Inv, TypeOK
  <2>2. unread' \in 0..MaxBytes /\ unread' <= sent'
    BY <1>1 DEF Arrives, Inv, TypeOK
  <2> QED
    BY <2>1, <2>2 DEF Inv, TypeOK, EventOK, Blank, StartOK, CancelOK, InputKept
<1>2. CASE Fetch
  <2>1. /\ watched /\ edge' = FALSE /\ fetched' \in 0..MaxFetched /\ fetched' > 0
        /\ UNCHANGED <<event_vars, step, reader_vars, at, sent, unread, input,
                       watched, ghost_vars>>
    BY <1>2 DEF Fetch, Inv, TypeOK
  <2>2. TypeOK'
    BY <2>1, ZenonT(30) DEF Inv, TypeOK
  <2>3. EventOK' /\ CancelOK'
    BY <2>1 DEF Inv, EventOK, Blank, CancelOK
  <2>4. StartOK'
    BY <2>1 DEF Inv, StartOK, Blank
  <2>5. InputKept' /\ unread' <= sent'
    BY <2>1 DEF Inv, InputKept
  <2> QED
    BY <2>2, <2>3, <2>4, <2>5 DEF Inv
<1>3. CASE Dispatch
  <2>1. /\ fetched > 0 /\ fetched' \in 0..MaxFetched
        /\ UNCHANGED <<step, reader_vars, at, sent, unread, input, watched, edge,
                       ghost_vars, phase, interest, order, taken, running, told>>
        /\ step = 4
        /\ \/ phase # "none" /\ told = <<>> /\ notified' = notified \cup {"readable"}
           \/ ~(phase # "none" /\ told = <<>>) /\ notified' = notified
    BY <1>3 DEF Dispatch, W!Notify, Inv, TypeOK, StartOK
  <2>2. watched => phase # "none" /\ told = <<>>
    BY DEF Inv, StartOK, EventOK
  <2>3. TypeOK' /\ StartOK' /\ CancelOK'
    BY <2>1 DEF Inv, TypeOK, StartOK, CancelOK
  <2>4. EventOK'
    BY <2>1 DEF Inv, EventOK, Blank
  <2>5. InputKept'
    BY <2>1, <2>2 DEF Inv, InputKept
  <2> QED
    BY <2>1, <2>3, <2>4, <2>5 DEF Inv
<1>4. CASE Deliver
  <2>1. /\ phase = "open" /\ "readable" \in notified /\ "readable" \notin taken
        /\ notified' = notified \ {"readable"}
        /\ taken' = taken \cup {"readable"}
        /\ UNCHANGED <<phase, interest, order, running, told, step, reader_vars,
                       at, kernel_vars, ghost_vars>>
    BY <1>4 DEF Deliver, W!Take
  <2>2. step = 4
    BY <2>1 DEF Inv, TypeOK, StartOK, Blank
  <2> QED
    BY <2>1, <2>2 DEF Inv, TypeOK, EventOK, Blank, StartOK, CancelOK, InputKept
<1> QED
  BY <1>1, <1>2, <1>3, <1>4

LEMMA NextInv == Inv /\ [Next]_vars => Inv'
<1> SUFFICES ASSUME Inv, [Next]_vars PROVE Inv'
  OBVIOUS
<1>1. CASE UNCHANGED vars
  BY <1>1 DEF vars, event_vars, reader_vars, kernel_vars, ghost_vars, Inv, TypeOK,
     EventOK, Blank, StartOK, CancelOK, InputKept
<1> QED
  BY <1>1, StartStep, CancelStep, ReadEndsStep, HandlerStep, OverStep, KernelStep
     DEF Next, Handler, Read

LEMMA Invariance == Spec => []Inv
  BY InitInv, NextInv, PTL DEF Spec

(* A reader never sleeps on input: although the kernel reports an arrival  *)
(* once and the handler may be busy when it does, what waits in the        *)
(* descriptor has a notification or a turn of the handler coming.          *)
THEOREM NeverSleepsOnInput == Spec => []ReaderConsistent
<1>1. Inv => ReaderConsistent
  BY DEF Inv, ReaderConsistent
<1> QED
  BY <1>1, Invariance, PTL

(* on_cancel is the last word: one call, with the code of the read that    *)
(* failed, and nothing of the reader is touched after it, although         *)
(* ntt_reader_start may not have returned yet.                             *)
THEOREM CancelComesLast == Spec => []CancelIsTheLastWord
<1>1. Inv => CancelIsTheLastWord
  <2> SUFFICES ASSUME Inv PROVE CancelIsTheLastWord
    OBVIOUS
  <2>1. CASE cancels = <<>>
    BY <2>1 DEF Inv, CancelOK, CancelIsTheLastWord, UntouchedAfterDelete,
       CancelledOnceWithItsCode
  <2>2. CASE cancels # <<>>
    <3>1. cancels = <<ec>> /\ ec \in {"zero", "errno"}
      BY <2>2 DEF Inv, TypeOK, CancelOK
    <3>2. /\ Len(cancels) = 1
          /\ cancels[1] = IF failed THEN "errno" ELSE "zero"
      BY <3>1 DEF Inv, CancelOK
    <3>3. /\ taken = {} /\ at = "out" /\ order = told
      BY <2>2 DEF Inv, CancelOK, EventOK, Blank
    <3>4. step # 0 /\ step # 1
      BY <2>2 DEF Inv, StartOK
    <3> QED
      BY <3>2, <3>3, <3>4, StartSteps DEF Inv, TypeOK, CancelIsTheLastWord,
         UntouchedAfterDelete, CancelledOnceWithItsCode
  <2> QED
    BY <2>1, <2>2
<1> QED
  BY <1>1, Invariance, PTL
=============================================================================
