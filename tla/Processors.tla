----------------------------- MODULE Processors -----------------------------
(***************************************************************************)
(* The processors a chain of unified events can hold (pipeline/): a        *)
(* coalescer of text deltas, a filter of reasoning, an injector of the     *)
(* completion a stream lacks; and the chain that runs them in order.       *)
(***************************************************************************)
EXTENDS UnifiedEvents

CONSTANT MaxBytes  \* TextCoalescer.MaxBytes, in pieces of text

\* A processor is its kind with what it has buffered by index and what it has seen.
New(kind) == [kind |-> kind, bufs |-> <<>>, seen |-> FALSE]

Flush(bufs, i) == <<Delta(i, "text", bufs[i])>>
FlushAll(bufs) ==
  FoldLeft(LAMBDA evs, i : evs \o Flush(bufs, i), <<>>, SetToSortSeq(DOMAIN bufs, <))

\* Every event that is not a delta of a text lets go what is buffered, before it.
Coalesce(p, e) ==
  IF e.type # "delta" \/ e.kind # "text"
    THEN [p |-> [p EXCEPT !.bufs = <<>>], out |-> Append(FlushAll(p.bufs), e)]
    ELSE LET buf == (IF e.index \in DOMAIN p.bufs THEN p.bufs[e.index] ELSE <<>>) \o e.text
             bufs == (e.index :> buf) @@ p.bufs
         IN IF Len(buf) >= MaxBytes
              THEN [p |-> [p EXCEPT !.bufs = Restrict(@, DOMAIN @ \ {e.index})], out |-> Flush(bufs, e.index)]
              ELSE [p |-> [p EXCEPT !.bufs = bufs], out |-> <<>>]

Filter(p, e) == [p |-> p, out |-> IF e.type = "delta" /\ e.kind = "reasoning" THEN <<>> ELSE <<e>>]

Inject(p, e) == [p |-> [p EXCEPT !.seen = @ \/ e.type = "completed"], out |-> <<e>>]

PushOne(p, e) ==
  CASE p.kind = "coalesce" -> Coalesce(p, e) [] p.kind = "filter" -> Filter(p, e) [] p.kind = "inject" -> Inject(p, e)

CloseOne(p) ==
  CASE p.kind = "coalesce" -> FlushAll(p.bufs)
    [] p.kind = "filter" -> <<>>
    [] p.kind = "inject" -> IF p.seen THEN <<>> ELSE <<Completed("unknown")>>

\* Chain.pushThrough: events through the processors from the given one on.
PushThrough(procs, evs, start) ==
  FoldLeft(LAMBDA r, i :
             FoldLeft(LAMBDA q, e : LET o == PushOne(q.procs[i], e)
                                    IN [procs |-> [q.procs EXCEPT ![i] = o.p], out |-> q.out \o o.out],
                      [procs |-> r.procs, out |-> <<>>], r.out),
           [procs |-> procs, out |-> evs],
           [i \in 1..(Len(procs) + 1 - start) |-> i + start - 1])

\* Chain.Close: what a processor still holds goes through the ones behind it.
CloseChain(procs) ==
  FoldLeft(LAMBDA r, i : LET o == PushThrough(r.procs, CloseOne(r.procs[i]), i + 1)
                         IN [procs |-> o.procs, out |-> r.out \o o.out],
           [procs |-> procs, out |-> <<>>], [i \in 1..Len(procs) |-> i])
=============================================================================
