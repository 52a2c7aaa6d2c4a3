------------------------------- MODULE Reader -------------------------------
(***************************************************************************)
(* The reader of a descriptor (src/src/reader.c): ntt_reader_start step by *)
(* step, the handler that reads until the descriptor would block, the end  *)
(* of the input, a failed read, ntt_reader_cancel from on_data and from    *)
(* other threads, and on_cancel, which may delete the reader while the     *)
(* call that started it has not returned.                                  *)
(*                                                                         *)
(* The event underneath is the one Watch promises and Event implements.    *)
(* The kernel is external: a descriptor with unread bytes, watched edge    *)
(* triggered (ntt_event_start asks for EPOLLIN | EPOLLET), so that it is   *)
(* reported when it is added readable and whenever more arrives, and never *)
(* just because bytes are left.                                            *)
(***************************************************************************)
EXTENDS Naturals, Sequences

CONSTANTS
    MaxBytes,   \* bound on the bytes the peer sends
    Chunk,      \* size of the buffer of the reader
    MaxFetched  \* bound on notifications fetched and not yet dispatched

ASSUME ReaderBounds ==
    /\ MaxBytes \in Nat
    /\ Chunk \in Nat \ {0}
    /\ MaxFetched \in Nat \ {0}

VARIABLES
    phase, interest, order, notified, taken, running, told, \* the event: Watch
    step,       \* steps of ntt_reader_start done so far
    queued,     \* self->queue is set
    handle,     \* self->event is set
    ec,         \* self->ec
    alive,      \* the reader has not been deleted
    at,         \* where the handler is: "out", "read", "data" or "leave"
    sent,       \* bytes the peer has sent
    unread,     \* bytes the descriptor holds
    input,      \* "open", "eof" or "error"
    watched,    \* the descriptor is in epoll
    edge,       \* the kernel has an edge to report
    fetched,    \* notifications workers have fetched
    failed,     \* a read has failed
    stopped,    \* ntt_reader_cancel has been called on a reader that runs
    cancels     \* codes on_cancel was called with

event_vars == <<phase, interest, order, notified, taken, running, told>>
reader_vars == <<queued, handle, ec, alive>>
kernel_vars == <<sent, unread, input, watched, edge, fetched>>
ghost_vars == <<failed, stopped, cancels>>
vars == <<event_vars, step, reader_vars, at, kernel_vars, ghost_vars>>

W == INSTANCE Watch

TypeOK ==
    /\ phase \in {"none", "open", "closed"}
    /\ step \in 0..4
    /\ queued \in BOOLEAN /\ handle \in BOOLEAN /\ alive \in BOOLEAN
    /\ ec \in {"zero", "errno"}
    /\ at \in {"out", "read", "data", "leave"}
    /\ sent \in 0..MaxBytes /\ unread \in 0..MaxBytes
    /\ input \in {"open", "eof", "error"}
    /\ watched \in BOOLEAN /\ edge \in BOOLEAN
    /\ fetched \in 0..MaxFetched
    /\ failed \in BOOLEAN /\ stopped \in BOOLEAN
    /\ cancels \in Seq({"zero", "errno"})

(* ntt_reader_init.                                                        *)
Init ==
    /\ W!Init
    /\ step = 0
    /\ queued = FALSE /\ handle = FALSE /\ ec = "zero" /\ alive = TRUE
    /\ at = "out"
    /\ sent = 0 /\ unread = 0 /\ input = "open"
    /\ watched = FALSE /\ edge = FALSE /\ fetched = 0
    /\ failed = FALSE /\ stopped = FALSE /\ cancels = <<>>

-----------------------------------------------------------------------------
(* What ntt_reader_start does, ntt_event_open included, in this order: the *)
(* handle is written before the registration that lets the handler run.    *)
StartOrderLate == <<"queue", "refs", "add", "handle">>  \* mutant
StartOrder == <<"queue", "handle", "refs", "add">>

Starting(what) == step < Len(StartOrder) /\ StartOrder[step + 1] = what

SetQueue ==
    /\ Starting("queue")
    /\ queued' = TRUE
    /\ step' = step + 1
    /\ UNCHANGED <<event_vars, handle, ec, alive, at, kernel_vars, ghost_vars>>

WriteHandle ==
    /\ Starting("handle")
    /\ handle' = TRUE
    /\ step' = step + 1
    /\ UNCHANGED <<event_vars, queued, ec, alive, at, kernel_vars, ghost_vars>>

StartEvent ==
    /\ Starting("refs")
    /\ W!Start({"readable"}, <<"readable">>)
    /\ step' = step + 1
    /\ UNCHANGED <<reader_vars, at, kernel_vars, ghost_vars>>

EpollAdd ==
    /\ Starting("add")
    /\ watched' = TRUE
    /\ edge' = (unread > 0 \/ input # "open")
    /\ step' = step + 1
    /\ UNCHANGED <<event_vars, reader_vars, at, sent, unread, input, fetched,
                   ghost_vars>>

-----------------------------------------------------------------------------
(* ntt_event_cancel: the first to close takes the descriptor out of epoll. *)
CancelEventNot == UNCHANGED <<event_vars, watched, edge>>  \* mutant
CancelEvent ==
    IF phase = "open"
    THEN W!Cancel /\ watched' = FALSE /\ edge' = FALSE
    ELSE UNCHANGED <<event_vars, watched, edge>>

(* ntt_reader_cancel: without a queue the reader was never started.        *)
Cancel ==
    /\ stopped' = queued
    /\ IF queued THEN CancelEvent ELSE UNCHANGED <<event_vars, watched, edge>>
    /\ UNCHANGED <<step, reader_vars, sent, unread, input, fetched, failed,
                   cancels>>

(* Any thread, any number of times, also when the reader is over but not   *)
(* deleted; not while ntt_reader_start is under way, whose fields it would *)
(* read unsynchronised.                                                    *)
CancelReader ==
    /\ alive
    /\ step \in {0, Len(StartOrder)}
    /\ Cancel
    /\ UNCHANGED at

-----------------------------------------------------------------------------
(* ntt_reader_readable is called; Watch says when.                         *)
HandlerBegins ==
    /\ W!Begin("readable")
    /\ at' = "read"
    /\ UNCHANGED <<step, reader_vars, kernel_vars, ghost_vars>>

(* read returns bytes, and on_data is called.                              *)
ReadData ==
    /\ at = "read" /\ unread > 0
    /\ \E n \in 1..Chunk : n <= unread /\ unread' = unread - n
    /\ at' = "data"
    /\ UNCHANGED <<event_vars, step, reader_vars, sent, input, watched, edge,
                   fetched, ghost_vars>>

(* on_data returns and the loop reads on.                                  *)
AfterDataLeaves == "leave"  \* mutant
AfterData == "read"

DataReturns ==
    /\ at = "data"
    /\ at' = AfterData
    /\ UNCHANGED <<event_vars, step, reader_vars, kernel_vars, ghost_vars>>

(* ntt_reader_cancel from on_data: the loop reads on all the same.         *)
CancelFromData ==
    /\ at = "data"
    /\ Cancel
    /\ at' = AfterData

(* read returns 0: nothing more will ever arrive.                          *)
ReadEnd ==
    /\ at = "read" /\ unread = 0 /\ input = "eof"
    /\ CancelEvent
    /\ at' = "leave"
    /\ UNCHANGED <<step, reader_vars, sent, unread, input, fetched, ghost_vars>>

(* read fails: the code is kept for on_cancel.                             *)
FailedCode == "errno"

ReadFails ==
    /\ at = "read" /\ input = "error"
    /\ ec' = FailedCode
    /\ CancelEvent
    /\ failed' = TRUE
    /\ at' = "leave"
    /\ UNCHANGED <<step, queued, handle, alive, sent, unread, input, fetched,
                   stopped, cancels>>

(* EAGAIN. An interrupted read is tried again, which changes nothing.      *)
WouldBlockSoon == TRUE  \* mutant
WouldBlock == unread = 0 /\ input = "open"

ReadBlocks ==
    /\ at = "read" /\ WouldBlock
    /\ at' = "leave"
    /\ UNCHANGED <<event_vars, step, reader_vars, kernel_vars, ghost_vars>>

HandlerReturns ==
    /\ at = "leave"
    /\ W!End("readable")
    /\ at' = "out"
    /\ UNCHANGED <<step, reader_vars, kernel_vars, ghost_vars>>

(* ntt_reader_cancelled: on_cancel with the code; the application may      *)
(* delete the reader there.                                                *)
OnCancel ==
    /\ W!Tell
    /\ cancels' = Append(cancels, ec)
    /\ alive' \in BOOLEAN
    /\ UNCHANGED <<step, queued, handle, ec, at, kernel_vars, failed, stopped>>

FinishEvent ==
    /\ W!Finish
    /\ UNCHANGED <<step, reader_vars, at, kernel_vars, ghost_vars>>

-----------------------------------------------------------------------------
(* The peer: more bytes, the end of the input, an error. Each is an edge   *)
(* when the descriptor is watched.                                         *)
Arrives ==
    /\ input = "open"
    /\ \/ /\ sent < MaxBytes
          /\ sent' = sent + 1 /\ unread' = unread + 1
          /\ UNCHANGED input
       \/ /\ input' \in {"eof", "error"}
          /\ UNCHANGED <<sent, unread>>
    /\ edge' = watched
    /\ UNCHANGED <<event_vars, step, reader_vars, at, watched, fetched,
                   ghost_vars>>

(* A worker fetches the edge; from then on epoll_ctl cannot take it back.  *)
Fetch ==
    /\ edge /\ watched
    /\ fetched < MaxFetched
    /\ edge' = FALSE
    /\ fetched' = fetched + 1
    /\ UNCHANGED <<event_vars, step, reader_vars, at, sent, unread, input,
                   watched, ghost_vars>>

(* ntt_event_dispatch publishes it, or finds the handle stale.             *)
Dispatch ==
    /\ fetched > 0
    /\ fetched' = fetched - 1
    /\ IF phase # "none" /\ told = <<>>
       THEN W!Notify({"readable"})
       ELSE UNCHANGED event_vars
    /\ UNCHANGED <<step, reader_vars, at, sent, unread, input, watched, edge,
                   ghost_vars>>

(* ntt_event_deliver_side.                                                 *)
Deliver ==
    /\ W!Take("readable")
    /\ UNCHANGED <<step, reader_vars, at, kernel_vars, ghost_vars>>

-----------------------------------------------------------------------------
Start == SetQueue \/ WriteHandle \/ StartEvent \/ EpollAdd

Read == ReadData \/ ReadEnd \/ ReadFails \/ ReadBlocks

Handler == HandlerBegins \/ Read \/ DataReturns \/ HandlerReturns

Next ==
    \/ Start
    \/ Handler
    \/ CancelFromData \/ CancelReader
    \/ OnCancel \/ FinishEvent
    \/ Arrives \/ Fetch \/ Dispatch \/ Deliver

Spec == Init /\ [][Next]_vars

(* The thread that starts the reader goes on, workers fetch and dispatch,  *)
(* the queue is served and on_data returns: what Event and Loop show of    *)
(* the loop, and what every callback owes it. The peer need not send and   *)
(* nobody need cancel.                                                     *)
Fairness ==
    /\ WF_vars(Start)
    /\ WF_vars(Handler)
    /\ WF_vars(OnCancel) /\ WF_vars(FinishEvent)
    /\ WF_vars(Fetch) /\ WF_vars(Dispatch) /\ WF_vars(Deliver)

FairSpec == Spec /\ Fairness

-----------------------------------------------------------------------------
(* The reader is never touched after on_cancel could delete it: not by the *)
(* rest of ntt_reader_start, which may return after that, not by the       *)
(* handler, and not by a second on_cancel.                                 *)
UntouchedAfterDelete ==
    ~alive => /\ ~Starting("queue") /\ ~Starting("handle")
              /\ taken = {} /\ at = "out"
              /\ Len(cancels) = 1 /\ order = told

(* on_cancel comes once, when the handler is out and will not be called    *)
(* again, and with the code of the read that ended the reader: errno after *)
(* a failed read, even one that ran after ntt_reader_cancel, zero when the *)
(* reader came to the end of the input by itself.                          *)
CancelledOnceWithItsCode ==
    /\ Len(cancels) <= 1
    /\ cancels # <<>> => /\ at = "out" /\ taken = {}
                         /\ failed => cancels[1] = "errno"
                         /\ ~failed /\ ~stopped => cancels[1] = "zero"

(* on_cancel is the last word: it comes once, with the code of the reader, *)
(* and the reader may be deleted in it.                                    *)
CancelIsTheLastWord == UntouchedAfterDelete /\ CancelledOnceWithItsCode

(* A reader that runs never sleeps on input: when bytes, the end or an     *)
(* error wait in the descriptor and the handler is out, an edge, a fetched *)
(* notification or a turn of the handler is under way, though the kernel   *)
(* does not report the same input twice.                                   *)
InputKept ==
    watched /\ (unread > 0 \/ input # "open") =>
        \/ edge \/ fetched > 0
        \/ "readable" \in notified \cup (taken \ running)
        \/ at \in {"read", "data"}

ReaderConsistent == TypeOK /\ InputKept

(* Whatever arrives is read, unless the application stopped the reader or  *)
(* the descriptor failed.                                                  *)
InputIsRead ==
    watched /\ unread > 0 ~> unread = 0 \/ stopped \/ input = "error"

(* The end of the input, an error and ntt_reader_cancel each lead to       *)
(* on_cancel: the reader does not keep the loop running for ever.          *)
EndIsReported ==
    (watched /\ input # "open") \/ stopped ~> cancels # <<>> /\ phase = "none"
=============================================================================
