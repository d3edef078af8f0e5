----------------------------- MODULE CodeCache -----------------------------
(* The cache of decoded code: src/src/cpu/trace.cpp, smc.cpp, decoder.cpp,  *)
(* and what access.cpp, mmu.cpp, ide.cpp and dma.cpp do for its sake.  Code *)
(* is decoded into traces, which run without a look at memory; the chunks   *)
(* they cover are marked, the linear page they were decoded through is      *)
(* written with care from then on, and a write to a marked chunk throws     *)
(* traces away.  Memory is not kept: a trace knows who changed its bytes.   *)
EXTENDS Integers

CONSTANTS Lin,        \* linear pages
          Pages,      \* number of physical pages
          PageSize,   \* bytes in a page: 4096
          ChunkSize,  \* bytes in a chunk: 128
          Slots,      \* slots of the cache: 65536
          Starts,     \* addresses the guest jumps to
          Lengths,    \* bytes of code up to the next jump
          Room,       \* traces the cache of instructions has room for
          Sizes,      \* bytes of a write by the processor
          WideSizes,  \* bytes of a store from an MMX or SSE register
          Amounts     \* bytes of a transfer

VARIABLES tlb,    \* linear page |-> frame and way of writing, or Nothing
          cache,  \* trace_info: slot |-> trace, or Nothing
          marked, \* m_smc_has_code: chunks
          used,   \* m_trace_cache_usage, in traces
          run     \* the trace that runs, or Nothing
vars == <<tlb, cache, marked, used, run>>

Nothing  == [first |-> -1]
AllSlots == 0..(Slots - 1)
Bytes    == 0..(Pages * PageSize - 1)
Page(b)  == b \div PageSize
Chunk(b) == b \div ChunkSize
Slot(b)  == b % Slots
Chunks   == {Chunk(b) : b \in Bytes}
ChunksOf(p)   == {Chunk(b) : b \in {c \in Bytes : Page(c) = p}}
EndOfPage(b)  == (Page(b) + 1) * PageSize - 1
LastChunk(p)  == Chunk((p + 1) * PageSize - 1)
Covers(t, B)  == t # Nothing /\ \E b \in B : b \in t.first..t.last
Cached        == {cache[s] : s \in AllSlots} \ {Nothing}
WatchedRun    == run # Nothing /\ run.first = cache[Slot(run.first)].first

ASSUME InputAssumption ==
  /\ Starts \subseteq Bytes /\ Lengths \subseteq Nat \ {0}
  /\ Sizes \subseteq Nat \ {0} /\ Amounts \subseteq Nat \ {0}
  /\ Pages \in Nat /\ PageSize \in Nat \ {0}
  /\ Lin \cap {"early", "unwatched", "device", "missed"} = {}

\* Chunks follow each other as bytes do, lie in one page each, and a page
\* reaches to its end.
ASSUME GeometryAssumption ==
  /\ \A b \in Bytes : Slot(b) \in AllSlots /\ Chunk(b) \in Nat
  /\ \A b, c \in Bytes : b <= c => Chunk(b) <= Chunk(c)
  /\ \A b, c \in Bytes : Chunk(b) = Chunk(c) => Page(b) = Page(c)
  /\ \A b \in Bytes : EndOfPage(b) \in Nat /\ \A c \in b..EndOfPage(b) : c \in Bytes /\ Page(c) = Page(b)
  /\ \A b \in Bytes : Chunk(b) <= Chunk(b + 1) /\ Chunk(b + 1) \in Nat

\* An aligned write lies in one chunk.
ASSUME AlignmentAssumption ==
  \A b \in Bytes, n \in Sizes : b % n = 0 =>
    \A c \in b..(b + n - 1) : c \in Bytes /\ Chunk(c) = Chunk(b)

\* set_smc: the chunks of a trace, and one more if it ends with its chunk.
Marks(first, last) == (Chunk(first)..Chunk(last + 1)) \cap Chunks

\* Mutant: the chunk written to is all that is looked at.
SameChunk(b) == {Chunk(b)}

\* cpu_smc_invalidate looks at the page up to the chunk that is written to,
\* since a trace may begin in any chunk before.
Below(b) == {c \in ChunksOf(Page(b)) : c <= Chunk(b)}

\* Traces that begin in the chunks C are dropped; a hit ends the slice.
Without(C) == [s \in AllSlots |->
                 IF cache[s] # Nothing /\ Chunk(cache[s].first) \in C THEN Nothing ELSE cache[s]]
Hit(C, b)  == \E t \in Cached : Chunk(t.first) \in C /\ b \in t.first..(t.last + 1)

\* What a write to B leaves in a cache c, with who is to blame at each slot.
Blamed(t, x)       == [first |-> t.first, last |-> t.last, others |-> t.others, stale |-> t.stale \cup {x}]
Touched(c, B, who) == [s \in AllSlots |-> IF Covers(c[s], B) THEN Blamed(c[s], who[s]) ELSE c[s]]

----------------------------------------------------------------------------
Init == /\ tlb = [l \in Lin |-> Nothing] /\ cache = [s \in AllSlots |-> Nothing]
        /\ marked = {} /\ used = 0 /\ run = Nothing

\* cpu_set_tlb_entry: a page with code in it is written with care.  Whatever
\* page the guest's tables give may be found.
Fill(l, p, write) ==
  /\ tlb[l] = Nothing \/ (write /\ tlb[l] # Nothing /\ tlb[l].write = "no")
  /\ tlb' = [tlb EXCEPT ![l] =
       [first |-> p, write |-> IF ~ write THEN "no"
                               ELSE IF marked \cap ChunksOf(p) # {} THEN "slow" ELSE "fast"]]
  /\ UNCHANGED <<cache, marked, used, run>>

\* INVLPG, or a flush of this page.
Drop(l) == tlb[l] # Nothing /\ tlb' = [tlb EXCEPT ![l] = Nothing] /\ UNCHANGED <<cache, marked, used, run>>

\* cpu_get_trace finds the code at b decoded.
Lookup(l, b) ==
  /\ run = Nothing /\ tlb[l] # Nothing /\ tlb[l].first = Page(b)
  /\ cache[Slot(b)].first = b
  /\ run' = cache[Slot(b)]
  /\ UNCHANGED <<tlb, cache, marked, used>>

\* The room cpu_get_trace wants left for a trace.
Fits == used < Room

\* It does not: all is thrown away when there is no room, and cpu_decode runs
\* up to the end of the page at most.  The linear page is written with care
\* from now on; others may hold the same page and be written without.
Decode(l, b) ==
  /\ run = Nothing /\ tlb[l] # Nothing /\ tlb[l].first = Page(b)
  /\ cache[Slot(b)].first # b
  /\ \E n \in Lengths :
       LET t == [first |-> b, last |-> b + n - 1, stale |-> {},
                 others |-> {k \in Lin \ {l} : tlb[k] # Nothing /\ tlb[k].first = Page(b) /\ tlb[k].write = "fast"}]
       IN /\ t.last <= EndOfPage(b)
          /\ cache' = [s \in AllSlots |-> IF s = Slot(b) THEN t ELSE IF Fits THEN cache[s] ELSE Nothing]
          /\ used' = IF Fits THEN used + 1 ELSE 1
          /\ marked' = marked \cup Marks(b, t.last)
          /\ run' = t
  /\ tlb' = [tlb EXCEPT ![l].write = IF @ = "fast" THEN "slow" ELSE @]

\* The trace ends with a jump, an interrupt or the slice.
Leave == run # Nothing /\ run' = Nothing /\ UNCHANGED <<tlb, cache, marked, used>>

\* Mutant: the slice goes on with the trace that was written to.
CarriesOn(C, b) == FALSE

\* quit: the slice ends after the instruction.
Quits(C, b) == Hit(C, b)

\* A write by the processor, aligned.  cpu_smc_invalidate is called for the
\* first byte alone, before the bytes are stored; a page left without marks
\* is no longer written with care.
Write(l, b, n) ==
  /\ tlb[l] # Nothing /\ tlb[l].first = Page(b) /\ tlb[l].write # "no"
  /\ b % n = 0
  /\ LET care == tlb[l].write = "slow" /\ Chunk(b) \in marked
         C    == IF care THEN Below(b) \cap marked ELSE {}
         B    == b..(b + n - 1)
         kept == marked \ C
         how  == IF ~ WatchedRun THEN "unwatched" ELSE IF b < run.first THEN "early" ELSE l
     IN /\ cache' = Touched(Without(C), B, [s \in AllSlots |-> l])
        /\ marked' = kept
        /\ tlb' = IF care /\ kept \cap ChunksOf(Page(b)) = {} THEN [tlb EXCEPT ![l] = Nothing] ELSE tlb
        /\ run' = IF Quits(C, b) THEN Nothing
                  ELSE IF Covers(run, B) THEN Blamed(run, how) ELSE run
  /\ UNCHANGED used

\* An aligned store of an MMX or SSE register, get_write_ptr: it asks whether
\* the page may be written and not whether with care, and drops nothing.
WideStore(l, b, n) ==
  /\ tlb[l] # Nothing /\ tlb[l].first = Page(b) /\ tlb[l].write # "no"
  /\ b % n = 0
  /\ LET B == b..(b + n - 1)
     IN /\ cache' = Touched(cache, B, [s \in AllSlots |-> "missed"])
        /\ run' = IF Covers(run, B) THEN Blamed(run, "missed") ELSE run
  /\ UNCHANGED <<tlb, marked, used>>

\* cpu_smc_invalidate_page looks at all chunks of a page but its last.
Swept(p) == ChunksOf(p) \ {LastChunk(p)}

\* A device writes to memory after the pages P have been invalidated, which
\* ends the slice if there are any.
Transfer(P, B, who) ==
  /\ cache' = Touched(Without(marked \cap UNION {Swept(p) : p \in P}), B, who)
  /\ run' = IF P # {} THEN Nothing
            ELSE IF Covers(run, B) THEN Blamed(run, "missed") ELSE run
  /\ UNCHANGED <<tlb, marked, used>>

\* ide_read_dma_handler: as many pages as the count fills, from the first
\* byte on.  What runs over into one page more is missed.
PagesAnnounced(b, n) == {Page(b + k) : k \in {i \in 0..(n - 1) : i % PageSize = 0}}
DiskTransfer(b, n) ==
  /\ b + n - 1 \in Bytes
  /\ Transfer(PagesAnnounced(b, n), b..(b + n - 1),
              [s \in AllSlots |-> IF b % PageSize = 0 \/ Page(cache[s].first) = Page(b) THEN "device" ELSE "missed"])

\* dma_run_transfers: every page but the one the transfer begins in.
ChannelTransfer(b, n) ==
  /\ b + n - 1 \in Bytes
  /\ Transfer({Page(c) : c \in b..(b + n - 1)} \ {Page(b)}, b..(b + n - 1),
              [s \in AllSlots |-> IF Page(cache[s].first) = Page(b) THEN "missed" ELSE "device"])

Next == \/ \E l \in Lin : \/ \E p \in 0..(Pages - 1), write \in BOOLEAN : Fill(l, p, write)
                          \/ Drop(l)
                          \/ \E b \in Starts : Lookup(l, b) \/ Decode(l, b)
                          \/ \E b \in Bytes, n \in Sizes : Write(l, b, n)
                          \/ \E b \in Bytes, n \in WideSizes : WideStore(l, b, n)
        \/ Leave
        \/ \E b \in Bytes, n \in Amounts : DiskTransfer(b, n) \/ ChannelTransfer(b, n)
Spec == Init /\ [][Next]_vars

----------------------------------------------------------------------------
(* Properties.                                                             *)

\* A page with a trace in the cache is written with care, also through
\* linear pages looked up later; those that held it when the trace was
\* decoded are left out.
Guarded(t) ==
  \A l \in Lin : (tlb[l] # Nothing /\ tlb[l].first = Page(t.first) /\ tlb[l].write = "fast") => l \in t.others

\* What is found in the cache is what memory holds, although the bytes a
\* write drops lie anywhere in the trace, and the next write is seen as well.
\* Left out are writes through linear pages that were there before, transfers
\* into pages nothing was done for, aligned stores of MMX and SSE registers,
\* and what devices write to traces that begin in the last chunk of a page.
NothingStale ==
  \A t \in Cached : /\ Guarded(t)
                    /\ t.stale \subseteq t.others \cup {"device", "missed"}
                    /\ "device" \in t.stale => Chunk(t.first) = LastChunk(Page(t.first))

\* A trace that changes its own code does not run on with the old: the slice
\* ends and what follows is decoded again.  Left out are a write that begins
\* before the trace, writes after the first one that dropped it, and aligned
\* stores of MMX and SSE registers.
RunsFresh == run # Nothing =>
  run.stale \subseteq run.others \cup {"early", "unwatched", "device", "missed"}
=============================================================================
