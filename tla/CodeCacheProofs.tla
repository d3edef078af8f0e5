-------------------------- MODULE CodeCacheProofs --------------------------
(* For every number and size of pages and chunks: a trace in the cache lies *)
(* in chunks that are marked, and is stale only where the model names the   *)
(* writer that no chunk mark could have caught; so is the trace that runs.  *)
EXTENDS CodeCache, TLAPS

\* A trace with this first and last byte lies in one page, and in marked
\* chunks.
Kept(first, last, m) == /\ first \in Bytes /\ last \in Nat /\ first <= last
                        /\ \A b \in first..last : b \in Bytes /\ Page(b) = Page(first) /\ Chunk(b) \in m
Inv == \A s \in AllSlots : cache[s] # Nothing => Kept(cache[s].first, cache[s].last, marked)

\* What a write leaves in the cache was there before, at the same place, and
\* did not begin in the chunks that are dropped.
LEMMA TouchedKeeps ==
  ASSUME NEW C, NEW B, NEW who, NEW s \in AllSlots, Touched(Without(C), B, who)[s] # Nothing
  PROVE  /\ cache[s] # Nothing /\ Chunk(cache[s].first) \notin C
         /\ Touched(Without(C), B, who)[s].first = cache[s].first
         /\ Touched(Without(C), B, who)[s].last = cache[s].last
  <1>1. Touched(Without(C), B, who)[s] = IF Covers(Without(C)[s], B) THEN Blamed(Without(C)[s], who[s])
                                         ELSE Without(C)[s]
      BY DEF Touched
  <1>2. Without(C)[s] # Nothing
      BY <1>1 DEF Covers
  <1>3. Without(C)[s] = cache[s] /\ cache[s] # Nothing /\ Chunk(cache[s].first) \notin C
      BY <1>2 DEF Without
  <1> QED BY <1>1, <1>3 DEF Blamed

\* Clearing the marks of a page up to a chunk is right, because the traces
\* that begin there are dropped.
LEMMA BelowKeeps ==
  ASSUME NEW b \in Bytes, NEW first, NEW last, Kept(first, last, marked),
         Chunk(first) \notin Below(b) \cap marked
  PROVE  Kept(first, last, marked \ (Below(b) \cap marked))
  <1>1. first \in first..last
      BY DEF Kept, Bytes
  <1>2. Chunk(first) \in marked /\ Chunk(first) \notin Below(b)
      BY <1>1 DEF Kept
  <1>3. ASSUME NEW c \in first..last PROVE Chunk(c) \notin Below(b)
    <2>1. c \in Bytes /\ first \in Bytes /\ first <= c /\ Page(c) = Page(first)
        BY <1>3 DEF Kept, Bytes
    <2>2. Chunk(first) <= Chunk(c) /\ {Chunk(first), Chunk(c), Chunk(b)} \subseteq Nat
        BY <2>1, GeometryAssumption
    <2>3. SUFFICES ASSUME Chunk(c) \in Below(b) PROVE FALSE
        OBVIOUS
    <2>4. PICK d \in Bytes : Page(d) = Page(b) /\ Chunk(d) = Chunk(c)
        BY <2>3 DEF Below, ChunksOf
    <2>5. Page(first) = Page(b)
        BY <2>1, <2>4, GeometryAssumption
    <2>6. Chunk(first) \in ChunksOf(Page(b))
        BY <2>1, <2>5 DEF ChunksOf
    <2>7. Chunk(first) <= Chunk(b)
        BY <2>2, <2>3 DEF Below
    <2> QED BY <1>2, <2>6, <2>7 DEF Below
  <1> QED BY <1>3 DEF Kept

\* A write keeps what it does not drop.
LEMMA WriteInv == ASSUME Inv, NEW l \in Lin, NEW b \in Bytes, NEW n \in Sizes, Write(l, b, n) PROVE Inv'
  <1>1. PICK C, B, who : /\ C = {} \/ C = Below(b) \cap marked
                         /\ cache' = Touched(Without(C), B, who)
                         /\ marked' = marked \ C
      BY DEF Write
  <1>2. ASSUME NEW s \in AllSlots, cache'[s] # Nothing
        PROVE  Kept(cache'[s].first, cache'[s].last, marked')
    <2>1. /\ cache[s] # Nothing /\ Chunk(cache[s].first) \notin C
          /\ cache'[s].first = cache[s].first /\ cache'[s].last = cache[s].last
        BY <1>1, <1>2, TouchedKeeps
    <2>2. Kept(cache[s].first, cache[s].last, marked)
        BY <2>1 DEF Inv
    <2>3. CASE C = {}
        BY <1>1, <2>1, <2>2, <2>3 DEF Kept
    <2>4. CASE C = Below(b) \cap marked
        BY <1>1, <2>1, <2>2, <2>4, BelowKeeps
    <2> QED BY <1>1, <2>3, <2>4
  <1> QED BY <1>2 DEF Inv

\* A transfer leaves the marks as they are.
LEMMA TransferInv == ASSUME Inv, NEW P, NEW B, NEW who, Transfer(P, B, who) PROVE Inv'
  <1>1. PICK C : cache' = Touched(Without(C), B, who) /\ marked' = marked
      BY DEF Transfer
  <1>2. ASSUME NEW s \in AllSlots, cache'[s] # Nothing
        PROVE  Kept(cache'[s].first, cache'[s].last, marked')
    <2>1. /\ cache[s] # Nothing
          /\ cache'[s].first = cache[s].first /\ cache'[s].last = cache[s].last
        BY <1>1, <1>2, TouchedKeeps
    <2> QED BY <1>1, <2>1 DEF Inv
  <1> QED BY <1>2 DEF Inv

\* A wide store changes neither places nor marks.
LEMMA WideInv == ASSUME Inv, NEW l \in Lin, NEW b \in Bytes, NEW n \in WideSizes, WideStore(l, b, n) PROVE Inv'
  <1>1. PICK B, who : cache' = Touched(cache, B, who) /\ marked' = marked
      BY DEF WideStore
  <1>2. ASSUME NEW s \in AllSlots, cache'[s] # Nothing
        PROVE  Kept(cache'[s].first, cache'[s].last, marked')
    <2>1. cache'[s] = IF Covers(cache[s], B) THEN Blamed(cache[s], who[s]) ELSE cache[s]
        BY <1>1 DEF Touched
    <2>2. cache[s] # Nothing /\ cache'[s].first = cache[s].first /\ cache'[s].last = cache[s].last
        BY <1>2, <2>1 DEF Covers, Blamed
    <2> QED BY <1>1, <2>2 DEF Inv
  <1> QED BY <1>2 DEF Inv

\* What is decoded is marked up to its last byte.
LEMMA DecodeInv == ASSUME Inv, NEW l \in Lin, NEW b \in Starts, Decode(l, b) PROVE Inv'
  <1>1. PICK n \in Lengths : \E t :
          /\ t.first = b /\ t.last = b + n - 1 /\ t.last <= EndOfPage(b)
          /\ cache' = [s \in AllSlots |-> IF s = Slot(b) THEN t ELSE IF Fits THEN cache[s] ELSE Nothing]
          /\ marked' = marked \cup Marks(b, t.last)
      BY DEF Decode
  <1>1a. PICK t :
          /\ t.first = b /\ t.last = b + n - 1 /\ t.last <= EndOfPage(b)
          /\ cache' = [s \in AllSlots |-> IF s = Slot(b) THEN t ELSE IF Fits THEN cache[s] ELSE Nothing]
          /\ marked' = marked \cup Marks(b, t.last)
      BY <1>1
  <1>2. b \in Bytes /\ b \in Nat /\ n \in Nat /\ n >= 1 /\ t.last \in Nat /\ b <= t.last
      BY <1>1a, InputAssumption DEF Bytes
  <1>3. ASSUME NEW c \in b..t.last PROVE c \in Bytes /\ Page(c) = Page(b) /\ Chunk(c) \in Marks(b, t.last)
    <2>1. c \in b..EndOfPage(b) /\ t.last \in b..EndOfPage(b)
      <3>1. EndOfPage(b) \in Int
          BY <1>2, GeometryAssumption
      <3> QED BY <1>1a, <1>2, <3>1
    <2>2. c \in Bytes /\ Page(c) = Page(b) /\ t.last \in Bytes
        BY <1>2, <2>1, GeometryAssumption
    <2>3. Chunk(b) <= Chunk(c) /\ Chunk(c) <= Chunk(t.last) /\ Chunk(t.last) <= Chunk(t.last + 1)
        BY <1>2, <1>3, <2>2, GeometryAssumption
    <2>4. {Chunk(b), Chunk(c), Chunk(t.last), Chunk(t.last + 1)} \subseteq Nat
        BY <1>2, <2>2, GeometryAssumption
    <2>5. Chunk(c) \in Chunk(b)..Chunk(t.last + 1)
        BY <2>3, <2>4
    <2> QED BY <2>2, <2>5 DEF Marks, Chunks
  <1>4. Kept(t.first, t.last, marked')
      BY <1>1a, <1>2, <1>3 DEF Kept
  <1>5. ASSUME NEW s \in AllSlots, cache'[s] # Nothing
        PROVE  Kept(cache'[s].first, cache'[s].last, marked')
    <2>1. CASE s = Slot(b)
        BY <1>1a, <1>4, <2>1
    <2>2. CASE s # Slot(b)
      <3>1. cache'[s] = cache[s]
          BY <1>1a, <1>5, <2>2
      <3> QED BY <1>1a, <1>5, <3>1 DEF Inv, Kept
    <2> QED BY <2>1, <2>2
  <1> QED BY <1>5 DEF Inv

\* Every step keeps the invariant.
LEMMA NextInv == ASSUME Inv, [Next]_vars PROVE Inv'
  <1>1. ASSUME NEW l \in Lin, NEW p \in 0..(Pages - 1), NEW write \in BOOLEAN, Fill(l, p, write) PROVE Inv'
      BY <1>1 DEF Fill, Inv, Kept
  <1>2. ASSUME NEW l \in Lin, Drop(l) PROVE Inv'
      BY <1>2 DEF Drop, Inv, Kept
  <1>3. ASSUME NEW l \in Lin, NEW b \in Starts, Lookup(l, b) PROVE Inv'
      BY <1>3 DEF Lookup, Inv, Kept
  <1>4. ASSUME NEW l \in Lin, NEW b \in Starts, Decode(l, b) PROVE Inv'
      BY <1>4, DecodeInv
  <1>5. ASSUME NEW l \in Lin, NEW b \in Bytes, NEW n \in Sizes, Write(l, b, n) PROVE Inv'
      BY <1>5, WriteInv
  <1>6. CASE Leave
      BY <1>6 DEF Leave, Inv, Kept
  <1>7. ASSUME NEW b \in Bytes, NEW n \in Amounts, DiskTransfer(b, n) PROVE Inv'
      BY <1>7, TransferInv DEF DiskTransfer
  <1>8. ASSUME NEW b \in Bytes, NEW n \in Amounts, ChannelTransfer(b, n) PROVE Inv'
      BY <1>8, TransferInv DEF ChannelTransfer
  <1>9. ASSUME NEW l \in Lin, NEW b \in Bytes, NEW n \in WideSizes, WideStore(l, b, n) PROVE Inv'
      BY <1>9, WideInv
  <1>10. CASE UNCHANGED vars
      BY <1>10 DEF vars, Inv, Kept
  <1> QED BY <1>1, <1>2, <1>3, <1>4, <1>5, <1>6, <1>7, <1>8, <1>9, <1>10 DEF Next

\* Every trace in the cache lies in chunks that are marked, however marks were
\* set and cleared since: a write to any of its bytes is noticed.
CodeIsMarked == \A t \in Cached : \A b \in t.first..t.last : Chunk(b) \in marked

\* A write to any byte of a trace in the cache is noticed: its chunk is
\* marked, whatever was decoded, dropped and cleared before.
THEOREM MarkedAlways == Spec => []CodeIsMarked
  <1>1. Init => Inv
      BY DEF Init, Inv
  <1>2. Inv /\ [Next]_vars => Inv'
      BY NextInv
  <1>3. Inv => CodeIsMarked
      BY DEF Inv, CodeIsMarked, Cached, Kept
  <1> QED BY <1>1, <1>2, <1>3, PTL DEF Spec

----------------------------------------------------------------------------
(* Who changed the bytes of a trace that is still in the cache.             *)

\* The table of translations: a frame and a way of writing, or nothing.
Views == {Nothing} \cup [first : Int, write : {"no", "slow", "fast"}]

\* NothingStale, of one trace.
Blameless(t) == /\ Guarded(t)
                /\ t.stale \subseteq t.others \cup {"device", "missed"}
                /\ "device" \in t.stale => Chunk(t.first) = LastChunk(Page(t.first))

\* The cache is a function, so its slots may be looked at one by one.
LEMMA SlotBySlot ==
  NothingStale <=> \A s \in AllSlots : cache[s] # Nothing => Blameless(cache[s])
  BY DEF NothingStale, Cached, Blameless

\* The same, of the state after a step.
LEMMA SlotBySlotNext ==
  ASSUME \A s \in AllSlots : cache'[s] # Nothing => Blameless(cache[s])'
  PROVE  NothingStale'
  BY DEF NothingStale, Cached, Blameless

\* A trace is blameless as long as no more linear pages write without care.
LEMMA StaysBlameless ==
  ASSUME NEW s \in AllSlots, Blameless(cache'[s]),
         \A l \in Lin : tlb'[l] # Nothing /\ tlb'[l].write = "fast" =>
            tlb[l] # Nothing /\ tlb[l].first = tlb'[l].first /\ tlb[l].write = "fast"
  PROVE  Blameless(cache[s])'
  BY DEF Blameless, Guarded, LastChunk

\* A byte of a trace lies in its page, in a marked chunk not below its first.
LEMMA ByteOf ==
  ASSUME Inv, NEW s \in AllSlots, cache[s] # Nothing, NEW B, Covers(cache[s], B)
  PROVE  \E c \in B : /\ c \in cache[s].first..cache[s].last
                      /\ c \in Bytes /\ Page(c) = Page(cache[s].first) /\ Chunk(c) \in marked
                      /\ cache[s].first \in Bytes /\ cache[s].first <= c
                      /\ Chunk(cache[s].first) <= Chunk(c) /\ Chunk(cache[s].first) \in marked
  <1>1. PICK c \in B : c \in cache[s].first..cache[s].last
      BY DEF Covers
  <1>2. Kept(cache[s].first, cache[s].last, marked)
      BY DEF Inv
  <1>3. cache[s].first \in cache[s].first..cache[s].last /\ cache[s].first <= c
      BY <1>1, <1>2 DEF Kept, Bytes
  <1>4. c \in Bytes /\ cache[s].first \in Bytes
      BY <1>1, <1>2 DEF Kept
  <1> QED BY <1>1, <1>2, <1>3, <1>4, GeometryAssumption DEF Kept

\* The processor is to blame only through a linear page that was there when
\* the trace was decoded: any other writes with care, and drops the trace.
LEMMA WriteBlames ==
  ASSUME Inv, NothingStale, NEW l \in Lin, NEW b \in Bytes, NEW n \in Sizes,
         tlb[l] # Nothing, tlb[l].first = Page(b), tlb[l].write \in {"slow", "fast"}, b % n = 0,
         NEW s \in AllSlots, cache[s] # Nothing, Covers(cache[s], b..(b + n - 1))
  PROVE  \/ tlb[l].write = "fast" /\ l \in cache[s].others
         \/ /\ tlb[l].write = "slow" /\ Chunk(b) \in marked
            /\ Chunk(cache[s].first) \in Below(b) \cap marked
  <1>1. PICK c \in b..(b + n - 1) :
          /\ c \in cache[s].first..cache[s].last
          /\ c \in Bytes /\ Page(c) = Page(cache[s].first) /\ Chunk(c) \in marked
          /\ cache[s].first \in Bytes
          /\ Chunk(cache[s].first) <= Chunk(c) /\ Chunk(cache[s].first) \in marked
      BY ByteOf
  <1>2. Chunk(c) = Chunk(b) /\ Page(c) = Page(b)
      BY <1>1, AlignmentAssumption, GeometryAssumption
  <1>3. Page(cache[s].first) = Page(b)
      BY <1>1, <1>2
  <1>4. CASE tlb[l].write = "fast"
    <2>1. Blameless(cache[s])
        BY SlotBySlot
    <2> QED BY <1>3, <1>4, <2>1 DEF Blameless, Guarded
  <1>5. CASE tlb[l].write = "slow"
    <2>1. Chunk(cache[s].first) \in ChunksOf(Page(b))
        BY <1>1, <1>3 DEF ChunksOf
    <2>2. Chunk(cache[s].first) \in Below(b)
        BY <1>1, <1>2, <2>1 DEF Below
    <2> QED BY <1>1, <1>2, <1>5, <2>2
  <1> QED BY <1>4, <1>5

\* What a change of memory leaves at a slot is what was there, and blamed if it
\* covers the change.
LEMMA TouchedBlames ==
  ASSUME NEW C, NEW B, NEW who, NEW s \in AllSlots,
         NEW t, t = Touched(Without(C), B, who)[s], t # Nothing
  PROVE  /\ cache[s] # Nothing /\ Chunk(cache[s].first) \notin C
         /\ t.first = cache[s].first /\ t.last = cache[s].last /\ t.others = cache[s].others
         /\ Covers(cache[s], B) => t.stale = cache[s].stale \cup {who[s]}
         /\ ~Covers(cache[s], B) => t.stale = cache[s].stale
  <1>1. t = IF Covers(Without(C)[s], B) THEN Blamed(Without(C)[s], who[s]) ELSE Without(C)[s]
      BY DEF Touched
  <1>2. Without(C)[s] # Nothing
      BY <1>1 DEF Covers
  <1>3. Without(C)[s] = cache[s] /\ cache[s] # Nothing /\ Chunk(cache[s].first) \notin C
      BY <1>2 DEF Without
  <1> QED BY <1>1, <1>3 DEF Blamed

\* It stays blameless if the one to blame may be.
LEMMA TouchedBlameless ==
  ASSUME NEW C, NEW B, NEW who, NEW s \in AllSlots,
         NEW t, t = Touched(Without(C), B, who)[s], t # Nothing,
         Blameless(cache[s]),
         Covers(cache[s], B) =>
           /\ who[s] \in cache[s].others \cup {"device", "missed"}
           /\ who[s] = "device" => Chunk(cache[s].first) = LastChunk(Page(cache[s].first))
  PROVE  Blameless(t)
  <1>1. /\ t.first = cache[s].first /\ t.others = cache[s].others
        /\ Covers(cache[s], B) => t.stale = cache[s].stale \cup {who[s]}
        /\ ~Covers(cache[s], B) => t.stale = cache[s].stale
      BY TouchedBlames
  <1>2. Guarded(t)
      BY <1>1 DEF Blameless, Guarded
  <1>3. t.stale \subseteq t.others \cup {"device", "missed"}
      BY <1>1 DEF Blameless
  <1>4. "device" \in t.stale => Chunk(t.first) = LastChunk(Page(t.first))
      BY <1>1 DEF Blameless
  <1> QED BY <1>2, <1>3, <1>4 DEF Blameless

\* A write keeps what is in the cache as memory is.
LEMMA WriteStale ==
  ASSUME Inv, tlb \in [Lin -> Views], NothingStale,
         NEW l \in Lin, NEW b \in Bytes, NEW n \in Sizes, Write(l, b, n)
  PROVE  tlb' \in [Lin -> Views] /\ NothingStale'
  <1> DEFINE care == tlb[l].write = "slow" /\ Chunk(b) \in marked
             C == IF care THEN Below(b) \cap marked ELSE {}
             B == b..(b + n - 1)
             who == [s \in AllSlots |-> l]
  <1>1. /\ tlb[l] # Nothing /\ tlb[l].first = Page(b) /\ tlb[l].write # "no" /\ b % n = 0
        /\ cache' = Touched(Without(C), B, who)
        /\ tlb' = tlb \/ tlb' = [tlb EXCEPT ![l] = Nothing]
      BY DEF Write
  <1>2. tlb[l].write \in {"slow", "fast"}
      BY <1>1 DEF Views
  <1>3. tlb' \in [Lin -> Views]
      BY <1>1 DEF Views
  <1>4. \A s \in AllSlots : who[s] = l /\ l # "device"
      BY InputAssumption
  <1>5. care => C = Below(b) \cap marked
      OBVIOUS
  <1>6. ASSUME NEW s \in AllSlots, cache[s] # Nothing, Covers(cache[s], B), Chunk(cache[s].first) \notin C
        PROVE  l \in cache[s].others
      BY <1>1, <1>2, <1>5, <1>6, WriteBlames
  <1> HIDE DEF C, B, who
  <1>7. ASSUME NEW s \in AllSlots, cache'[s] # Nothing PROVE Blameless(cache'[s])
    <2>1. PICK t : t = cache'[s] /\ t = Touched(Without(C), B, who)[s] /\ t # Nothing
        BY <1>1, <1>7
    <2>2. cache[s] # Nothing /\ Chunk(cache[s].first) \notin C
        BY <2>1, TouchedBlames
    <2>3. Blameless(cache[s])
        BY <2>2, SlotBySlot
    <2>4. Blameless(t)
        BY <1>4, <1>6, <2>1, <2>2, <2>3, TouchedBlameless
    <2> QED BY <2>1, <2>4
  <1>8. \A k \in Lin : tlb'[k] # Nothing /\ tlb'[k].write = "fast" =>
           tlb[k] # Nothing /\ tlb[k].first = tlb'[k].first /\ tlb[k].write = "fast"
      BY <1>1
  <1>9. \A s \in AllSlots : cache'[s] # Nothing => Blameless(cache[s])'
      BY <1>7, <1>8, StaysBlameless
  <1> QED BY <1>3, <1>9, SlotBySlotNext

\* A number and the multiple of P at or below it.
LEMMA Division ==
  ASSUME NEW P \in Nat \ {0}, NEW x \in Nat
  PROVE  /\ x \div P \in Nat /\ x % P \in 0..(P - 1)
         /\ x = P * (x \div P) + (x % P)
         /\ x - (x % P) = P * (x \div P) /\ x - (x % P) \in 0..x
  <1> DEFINE q == x \div P
             m == x % P
  <1>1. q \in Nat /\ m \in 0..(P - 1) /\ x = P * q + m
      OBVIOUS
  <1> HIDE DEF q, m
  <1>2. P * q \in Nat
      BY <1>1
  <1>3. x - m = P * q /\ x - m \in 0..x
      BY <1>1, <1>2
  <1> QED BY <1>1, <1>3 DEF q, m

\* The pages a transfer of n bytes from a page's first byte on fills.
LEMMA EveryPageAnnounced ==
  ASSUME NEW b \in Nat, NEW n \in Nat \ {0}, NEW c \in b..(b + n - 1),
         b % PageSize = 0 \/ Page(c) = Page(b)
  PROVE  Page(c) \in PagesAnnounced(b, n)
  <1>1. CASE Page(c) = Page(b)
    <2>1. 0 \in 0..(n - 1) /\ 0 % PageSize = 0 /\ Page(b + 0) = Page(b)
        BY InputAssumption
    <2>2. Page(b + 0) \in PagesAnnounced(b, n)
        BY <2>1 DEF PagesAnnounced
    <2> QED BY <1>1, <2>1, <2>2
  <1>2. CASE b % PageSize = 0
    <2>1. PICK j \in Nat : j \in 0..(n - 1) /\ c = b + j
      <3>1. c - b \in Nat /\ c - b \in 0..(n - 1) /\ c = b + (c - b)
          OBVIOUS
      <3> QED BY <3>1
    <2> DEFINE k == j - (j % PageSize)
               q == b \div PageSize
               r == j \div PageSize
    <2>0. PageSize \in Nat \ {0}
        BY InputAssumption
    <2>2. /\ j = PageSize * r + (j % PageSize) /\ j % PageSize \in 0..(PageSize - 1)
          /\ r \in Nat /\ k = PageSize * r /\ k \in 0..j
        BY <2>0, Division
    <2>3. b = PageSize * q /\ q \in Nat
        BY <1>2, <2>0, Division
    <2>4. k \in 0..(n - 1)
        BY <2>1, <2>2
    <2>5. /\ b + k = PageSize * (q + r) + 0
          /\ b + j = PageSize * (q + r) + (j % PageSize)
      <3> DEFINE m == j % PageSize
      <3>1. b + k = PageSize * q + PageSize * r /\ b + j = (PageSize * q + PageSize * r) + m
        <4>1. PageSize * q \in Nat /\ PageSize * r \in Nat /\ m \in Nat
            BY <2>0, <2>2, <2>3
        <4> HIDE DEF k, q, r, m
        <4> QED BY <2>2, <2>3, <4>1 DEF m
      <3> HIDE DEF k, q, r, m
      <3>2. m \in Nat
          BY <2>0, <2>2 DEF m
      <3> QED BY <2>0, <2>2, <2>3, <3>1, <3>2 DEF m
    <2>6. ASSUME NEW x \in 0..(PageSize - 1), NEW y \in Nat PROVE (PageSize * y + x) \div PageSize = y
        BY <2>0
    <2>7. ASSUME NEW y \in Nat PROVE (PageSize * y) % PageSize = 0
        BY <2>0
    <2> HIDE DEF k, q, r
    <2>8. Page(b + k) = q + r /\ Page(b + j) = q + r
      <3>1. q + r \in Nat /\ 0 \in 0..(PageSize - 1)
          BY <2>0, <2>2, <2>3
      <3> QED BY <2>2, <2>5, <2>6, <3>1 DEF Page
    <2>9. k % PageSize = 0
        BY <2>2, <2>7
    <2> QED BY <2>1, <2>4, <2>8, <2>9 DEF PagesAnnounced
  <1> QED BY <1>1, <1>2

\* A transfer keeps what is in the cache as memory is, or blames the device for
\* a trace that begins in the last chunk of an announced page, or is missed.
LEMMA TransferStale ==
  ASSUME Inv, NothingStale, NEW P, NEW B, NEW who, Transfer(P, B, who),
         \A s \in AllSlots : cache[s] # Nothing /\ Covers(cache[s], B) =>
            \/ who[s] = "missed"
            \/ who[s] = "device" /\ Page(cache[s].first) \in P
  PROVE  NothingStale'
  <1> DEFINE C == marked \cap UNION {Swept(p) : p \in P}
  <1>1. cache' = Touched(Without(C), B, who) /\ tlb' = tlb
      BY DEF Transfer
  <1>2. ASSUME NEW s \in AllSlots, cache[s] # Nothing, Chunk(cache[s].first) \notin C,
               Page(cache[s].first) \in P
        PROVE  Chunk(cache[s].first) = LastChunk(Page(cache[s].first))
    <2>1. Kept(cache[s].first, cache[s].last, marked)
        BY <1>2 DEF Inv
    <2>2. cache[s].first \in Bytes /\ Chunk(cache[s].first) \in marked
      <3>1. cache[s].first \in cache[s].first..cache[s].last
          BY <2>1 DEF Kept, Bytes
      <3> QED BY <2>1, <3>1 DEF Kept
    <2>3. Chunk(cache[s].first) \in ChunksOf(Page(cache[s].first))
        BY <2>2 DEF ChunksOf
    <2>4. Chunk(cache[s].first) \notin Swept(Page(cache[s].first))
        BY <1>2, <2>2
    <2> QED BY <2>3, <2>4 DEF Swept
  <1> HIDE DEF C
  <1>3. ASSUME NEW s \in AllSlots, cache'[s] # Nothing PROVE Blameless(cache'[s])
    <2>1. PICK t : t = cache'[s] /\ t = Touched(Without(C), B, who)[s] /\ t # Nothing
        BY <1>1, <1>3
    <2>2. cache[s] # Nothing /\ Chunk(cache[s].first) \notin C
        BY <2>1, TouchedBlames
    <2>3. Blameless(cache[s])
        BY <2>2, SlotBySlot
    <2>4. Covers(cache[s], B) =>
            /\ who[s] \in cache[s].others \cup {"device", "missed"}
            /\ who[s] = "device" => Chunk(cache[s].first) = LastChunk(Page(cache[s].first))
        BY <1>2, <2>2
    <2>5. Blameless(t)
        BY <2>1, <2>3, <2>4, TouchedBlameless
    <2> QED BY <2>1, <2>5
  <1>4. \A s \in AllSlots : cache'[s] # Nothing => Blameless(cache[s])'
      BY <1>1, <1>3, StaysBlameless
  <1> QED BY <1>4, SlotBySlotNext

\* The disk announces what it fills from a page's first byte on, and the page
\* it begins in.
LEMMA DiskStale ==
  ASSUME Inv, NothingStale, NEW b \in Bytes, NEW n \in Amounts, DiskTransfer(b, n)
  PROVE  NothingStale'
  <1> DEFINE B == b..(b + n - 1)
             P == PagesAnnounced(b, n)
             who == [s \in AllSlots |->
                       IF b % PageSize = 0 \/ Page(cache[s].first) = Page(b) THEN "device" ELSE "missed"]
  <1>1. Transfer(P, B, who)
      BY DEF DiskTransfer
  <1>2. b \in Nat /\ n \in Nat \ {0}
      BY InputAssumption DEF Bytes
  <1>3. ASSUME NEW s \in AllSlots, cache[s] # Nothing, Covers(cache[s], B), who[s] # "missed"
        PROVE  who[s] = "device" /\ Page(cache[s].first) \in P
    <2>1. PICK c \in B : Page(c) = Page(cache[s].first)
      <3> HIDE DEF B
      <3> QED BY <1>3, ByteOf
    <2>2. b % PageSize = 0 \/ Page(cache[s].first) = Page(b)
        BY <1>3
    <2> QED BY <1>2, <1>3, <2>1, <2>2, EveryPageAnnounced
  <1> HIDE DEF B, P, who
  <1> QED BY <1>1, <1>3, TransferStale

\* A channel announces every page but the one it begins in.
LEMMA ChannelStale ==
  ASSUME Inv, NothingStale, NEW b \in Bytes, NEW n \in Amounts, ChannelTransfer(b, n)
  PROVE  NothingStale'
  <1> DEFINE B == b..(b + n - 1)
             P == {Page(c) : c \in B} \ {Page(b)}
             who == [s \in AllSlots |-> IF Page(cache[s].first) = Page(b) THEN "missed" ELSE "device"]
  <1>1. Transfer(P, B, who)
      BY DEF ChannelTransfer
  <1>2. ASSUME NEW s \in AllSlots, cache[s] # Nothing, Covers(cache[s], B), who[s] # "missed"
        PROVE  who[s] = "device" /\ Page(cache[s].first) \in P
    <2> HIDE DEF B
    <2>1. PICK c \in B : Page(c) = Page(cache[s].first)
        BY <1>2, ByteOf
    <2> QED BY <1>2, <2>1
  <1> HIDE DEF B, P, who
  <1> QED BY <1>1, <1>2, TransferStale

\* What is decoded begins blameless, and every view of its page that writes
\* without care is named in it.
LEMMA DecodeStale ==
  ASSUME Inv, tlb \in [Lin -> Views], NothingStale, NEW l \in Lin, NEW b \in Starts, Decode(l, b)
  PROVE  tlb' \in [Lin -> Views] /\ NothingStale'
  <1> DEFINE others == {k \in Lin \ {l} : tlb[k] # Nothing /\ tlb[k].first = Page(b) /\ tlb[k].write = "fast"}
  <1>1. PICK t : /\ t.first = b /\ t.stale = {} /\ t.others = others
                 /\ cache' = [s \in AllSlots |-> IF s = Slot(b) THEN t ELSE IF Fits THEN cache[s] ELSE Nothing]
      BY DEF Decode
  <1>2. tlb[l] # Nothing /\ tlb' = [tlb EXCEPT ![l].write = IF @ = "fast" THEN "slow" ELSE @]
      BY DEF Decode
  <1>3. /\ tlb' \in [Lin -> Views] /\ tlb'[l].write # "fast"
        /\ \A k \in Lin : k # l => tlb'[k] = tlb[k]
    <2>1. tlb[l] \in [first : Int, write : {"no", "slow", "fast"}]
        BY <1>2 DEF Views
    <2> QED BY <1>2, <2>1 DEF Views
  <1>4. \A k \in Lin : tlb'[k] # Nothing /\ tlb'[k].write = "fast" =>
           k # l /\ tlb[k] # Nothing /\ tlb[k].first = tlb'[k].first /\ tlb[k].write = "fast"
      BY <1>3
  <1>5. ASSUME NEW s \in AllSlots, cache'[s] # Nothing PROVE Blameless(cache[s])'
    <2>1. CASE s = Slot(b)
      <3>1. cache'[s] = t
          BY <1>1, <2>1
      <3>2. Guarded(cache[s])'
          BY <1>1, <1>4, <3>1 DEF Guarded
      <3> QED BY <1>1, <3>1, <3>2 DEF Blameless
    <2>2. CASE s # Slot(b)
      <3>1. cache'[s] = cache[s] /\ cache[s] # Nothing
          BY <1>1, <1>5, <2>2
      <3>2. Blameless(cache'[s])
          BY <3>1, SlotBySlot
      <3> QED BY <1>4, <3>2, StaysBlameless
    <2> QED BY <2>1, <2>2
  <1> QED BY <1>3, <1>5, SlotBySlotNext

\* A page found with marks on it is written with care.
LEMMA FillStale ==
  ASSUME Inv, tlb \in [Lin -> Views], NothingStale,
         NEW l \in Lin, NEW p \in 0..(Pages - 1), NEW write \in BOOLEAN, Fill(l, p, write)
  PROVE  tlb' \in [Lin -> Views] /\ NothingStale'
  <1> DEFINE way == IF ~ write THEN "no" ELSE IF marked \cap ChunksOf(p) # {} THEN "slow" ELSE "fast"
  <1>1. tlb' = [tlb EXCEPT ![l] = [first |-> p, write |-> way]] /\ cache' = cache
      BY DEF Fill
  <1>2. p \in Int /\ way \in {"no", "slow", "fast"}
      BY InputAssumption
  <1>3. way = "fast" => marked \cap ChunksOf(p) = {}
      OBVIOUS
  <1> HIDE DEF way
  <1>4. tlb' \in [Lin -> Views]
      BY <1>1, <1>2 DEF Views
  <1>5. tlb'[l].first = p /\ tlb'[l].write = way /\ \A k \in Lin : k # l => tlb'[k] = tlb[k]
      BY <1>1
  <1>6. ASSUME NEW s \in AllSlots, cache[s] # Nothing PROVE Blameless(cache[s])'
    <2>1. Blameless(cache[s])
        BY <1>6, SlotBySlot
    <2>2. Page(cache[s].first) = p => way # "fast"
      <3>1. Kept(cache[s].first, cache[s].last, marked)
          BY <1>6 DEF Inv
      <3>2. cache[s].first \in Bytes /\ Chunk(cache[s].first) \in marked
        <4>1. cache[s].first \in cache[s].first..cache[s].last
            BY <3>1 DEF Kept, Bytes
        <4> QED BY <3>1, <4>1 DEF Kept
      <3> QED BY <1>3, <3>2 DEF ChunksOf
    <2>3. Guarded(cache[s])'
        BY <1>1, <1>5, <2>1, <2>2 DEF Blameless, Guarded
    <2> QED BY <1>1, <2>1, <2>3 DEF Blameless
  <1> QED BY <1>1, <1>4, <1>6, SlotBySlotNext

\* A store from a wide register is missed, and nothing else.
LEMMA WideStale ==
  ASSUME NothingStale, NEW l \in Lin, NEW b \in Bytes, NEW n \in WideSizes, WideStore(l, b, n)
  PROVE  NothingStale'
  <1>1. PICK B : cache' = Touched(cache, B, [s \in AllSlots |-> "missed"]) /\ tlb' = tlb
      BY DEF WideStore
  <1>2. ASSUME NEW s \in AllSlots, cache'[s] # Nothing PROVE Blameless(cache'[s])
    <2>1. PICK t : t = cache'[s] /\ t # Nothing
        BY <1>2
    <2>2. t = IF Covers(cache[s], B) THEN Blamed(cache[s], "missed") ELSE cache[s]
        BY <1>1, <2>1 DEF Touched
    <2>3. cache[s] # Nothing
        BY <2>1, <2>2 DEF Covers
    <2>4. Blameless(cache[s])
        BY <2>3, SlotBySlot
    <2>5. /\ t.first = cache[s].first /\ t.others = cache[s].others
          /\ t.stale \subseteq cache[s].stale \cup {"missed"}
        BY <2>2 DEF Blamed
    <2>6. Blameless(t)
        BY <2>4, <2>5 DEF Blameless, Guarded
    <2> QED BY <2>1, <2>6
  <1>3. \A s \in AllSlots : cache'[s] # Nothing => Blameless(cache[s])'
      BY <1>1, <1>2, StaysBlameless
  <1> QED BY <1>3, SlotBySlotNext

\* Every step keeps what is in the cache as memory is.
LEMMA NextStale ==
  ASSUME Inv, tlb \in [Lin -> Views], NothingStale, [Next]_vars
  PROVE  tlb' \in [Lin -> Views] /\ NothingStale'
  <1> DEFINE Goal == tlb' \in [Lin -> Views] /\ NothingStale'
  <1>1. ASSUME NEW l \in Lin, NEW p \in 0..(Pages - 1), NEW write \in BOOLEAN, Fill(l, p, write) PROVE Goal
      BY <1>1, FillStale
  <1>2. ASSUME NEW l \in Lin, Drop(l) PROVE Goal
    <2>1. tlb' = [tlb EXCEPT ![l] = Nothing] /\ cache' = cache
        BY <1>2 DEF Drop
    <2>2. tlb' \in [Lin -> Views]
        BY <2>1 DEF Views
    <2>3. \A k \in Lin : tlb'[k] # Nothing => tlb'[k] = tlb[k]
        BY <2>1
    <2>4. \A s \in AllSlots : cache'[s] # Nothing => Blameless(cache'[s])
        BY <2>1, SlotBySlot
    <2>5. \A s \in AllSlots : cache'[s] # Nothing => Blameless(cache[s])'
        BY <2>3, <2>4, StaysBlameless
    <2> QED BY <2>2, <2>5, SlotBySlotNext
  <1>3. ASSUME UNCHANGED <<tlb, cache>> PROVE Goal
    <2>1. \A s \in AllSlots : cache'[s] # Nothing => Blameless(cache[s])'
        BY <1>3, SlotBySlot DEF Blameless, Guarded
    <2> QED BY <1>3, <2>1, SlotBySlotNext
  <1>4. ASSUME NEW l \in Lin, NEW b \in Starts, Lookup(l, b) PROVE Goal
      BY <1>3, <1>4 DEF Lookup
  <1>5. ASSUME NEW l \in Lin, NEW b \in Starts, Decode(l, b) PROVE Goal
      BY <1>5, DecodeStale
  <1>6. ASSUME NEW l \in Lin, NEW b \in Bytes, NEW n \in Sizes, Write(l, b, n) PROVE Goal
      BY <1>6, WriteStale
  <1>7. ASSUME NEW l \in Lin, NEW b \in Bytes, NEW n \in WideSizes, WideStore(l, b, n) PROVE Goal
      BY <1>7, WideStale DEF WideStore
  <1>8. ASSUME Leave PROVE Goal
      BY <1>3, <1>8 DEF Leave
  <1>9. ASSUME NEW b \in Bytes, NEW n \in Amounts, DiskTransfer(b, n) PROVE Goal
      BY <1>9, DiskStale DEF DiskTransfer, Transfer
  <1>10. ASSUME NEW b \in Bytes, NEW n \in Amounts, ChannelTransfer(b, n) PROVE Goal
      BY <1>10, ChannelStale DEF ChannelTransfer, Transfer
  <1>11. ASSUME UNCHANGED vars PROVE Goal
      BY <1>3, <1>11 DEF vars
  <1> HIDE DEF Goal
  <1> QED BY <1>1, <1>2, <1>4, <1>5, <1>6, <1>7, <1>8, <1>9, <1>10, <1>11 DEF Next, Goal

\* The cache agrees with memory, but for the writers the trace names and for
\* what devices and wide stores may do, at every size of pages and chunks.
THEOREM NeverStale == Spec => []NothingStale
  <1>1. Init => Inv /\ tlb \in [Lin -> Views] /\ NothingStale
    <2> SUFFICES ASSUME Init PROVE Inv /\ tlb \in [Lin -> Views] /\ NothingStale
        OBVIOUS
    <2>1. \A s \in AllSlots : cache[s] = Nothing
        BY DEF Init
    <2>2. tlb \in [Lin -> Views]
        BY DEF Init, Views
    <2> QED BY <2>1, <2>2, SlotBySlot DEF Inv
  <1>2. Inv /\ tlb \in [Lin -> Views] /\ NothingStale /\ [Next]_vars
          => Inv' /\ (tlb \in [Lin -> Views])' /\ NothingStale'
      BY NextInv, NextStale
  <1> QED BY <1>1, <1>2, PTL DEF Spec

----------------------------------------------------------------------------
(* The trace that runs.                                                     *)

\* While it runs, the trace in its slot is the same one, or none.
RunKnown ==
  run # Nothing =>
    /\ run.first \in Bytes
    /\ WatchedRun => /\ cache[Slot(run.first)].last = run.last
                     /\ cache[Slot(run.first)].others = run.others

\* A first byte tells a trace from an empty slot.
LEMMA BytesAreNotNothing ==
  ASSUME NEW t, t.first \in Bytes
  PROVE  t # Nothing
  BY DEF Nothing, Bytes

\* A change of memory leaves the slot with the same trace, or none.
LEMMA RunStaysKnown ==
  ASSUME RunKnown, run # Nothing, NEW C, NEW B, NEW who, cache' = Touched(Without(C), B, who),
         run'.first = run.first, run'.last = run.last, run'.others = run.others
  PROVE  RunKnown'
  <1>1. run.first \in Bytes /\ Slot(run.first) \in AllSlots
      BY GeometryAssumption DEF RunKnown
  <1>2. ASSUME run.first = cache'[Slot(run.first)].first
        PROVE  /\ cache'[Slot(run.first)].last = run.last
               /\ cache'[Slot(run.first)].others = run.others
    <2>1. PICK s \in AllSlots : s = Slot(run.first)
        BY <1>1
    <2>2. PICK t : t = cache'[s] /\ t = Touched(Without(C), B, who)[s]
        OBVIOUS
    <2>3. t # Nothing
        BY <1>1, <1>2, <2>1, <2>2, BytesAreNotNothing
    <2>4. t.first = cache[s].first /\ t.last = cache[s].last /\ t.others = cache[s].others
        BY <2>2, <2>3, TouchedBlames
    <2>5. WatchedRun
        BY <1>2, <2>1, <2>2, <2>4 DEF WatchedRun
    <2> QED BY <2>1, <2>2, <2>4, <2>5 DEF RunKnown
  <1>3. Slot(run.first)' = Slot(run'.first) /\ Slot(run'.first) = Slot(run.first)
      BY DEF Slot
  <1> QED BY <1>1, <1>2, <1>3 DEF RunKnown, WatchedRun

\* A trace that is watched and changed by a write at or behind its first byte
\* is dropped, with the slice, unless the writer had its view before.
LEMMA WriteIsSeen ==
  ASSUME Inv, tlb \in [Lin -> Views], NothingStale, RunKnown, WatchedRun,
         NEW l \in Lin, NEW b \in Bytes, NEW n \in Sizes,
         tlb[l] # Nothing, tlb[l].first = Page(b), tlb[l].write # "no", b % n = 0,
         Covers(run, b..(b + n - 1)), ~(b < run.first),
         NEW C, tlb[l].write = "slow" /\ Chunk(b) \in marked => C = Below(b) \cap marked,
         ~Quits(C, b)
  PROVE  l \in run.others
  <1> DEFINE B == b..(b + n - 1)
  <1>1. PICK s \in AllSlots : s = Slot(run.first)
      BY GeometryAssumption DEF RunKnown, WatchedRun
  <1>2. /\ run.first \in Bytes /\ cache[s].first = run.first /\ cache[s].last = run.last
        /\ cache[s].others = run.others
      BY <1>1 DEF RunKnown, WatchedRun
  <1>3. cache[s] # Nothing
      BY <1>2, BytesAreNotNothing
  <1>4. Covers(cache[s], B)
      BY <1>2, <1>3 DEF Covers
  <1>5. tlb[l].write \in {"slow", "fast"}
      BY DEF Views
  <1>6. ~(/\ tlb[l].write = "slow" /\ Chunk(b) \in marked
          /\ Chunk(cache[s].first) \in Below(b) \cap marked)
    <2> SUFFICES ASSUME tlb[l].write = "slow", Chunk(b) \in marked,
                        Chunk(cache[s].first) \in Below(b) \cap marked
                 PROVE  FALSE
        OBVIOUS
    <2>1. C = Below(b) \cap marked
        OBVIOUS
    <2>2. PICK c \in B : c \in run.first..run.last
        BY DEF Covers
    <2>3. Kept(cache[s].first, cache[s].last, marked)
        BY <1>3 DEF Inv
    <2>4. b \in cache[s].first..(cache[s].last + 1)
      <3>1. run.first \in Int /\ run.last \in Int /\ b \in Int /\ c \in Int
          BY <1>2, <2>3 DEF Kept, Bytes
      <3>2. b <= c /\ c <= run.last /\ run.first <= b
          BY <2>2, <3>1
      <3> QED BY <1>2, <3>1, <3>2
    <2>5. cache[s] \in Cached
        BY <1>3 DEF Cached
    <2>6. Hit(C, b)
        BY <2>1, <2>4, <2>5 DEF Hit
    <2> QED BY <2>6 DEF Quits
  <1>7. l \in cache[s].others
      BY <1>3, <1>4, <1>5, <1>6, WriteBlames
  <1> QED BY <1>2, <1>7

\* A write ends the run, or leaves it as fresh as it was, or changed through a
\* view it names.
LEMMA WriteFresh ==
  ASSUME Inv, tlb \in [Lin -> Views], NothingStale, RunKnown, RunsFresh,
         NEW l \in Lin, NEW b \in Bytes, NEW n \in Sizes, Write(l, b, n)
  PROVE  RunKnown' /\ RunsFresh'
  <1> DEFINE care == tlb[l].write = "slow" /\ Chunk(b) \in marked
             C == IF care THEN Below(b) \cap marked ELSE {}
             B == b..(b + n - 1)
             who == [s \in AllSlots |-> l]
             how == IF ~ WatchedRun THEN "unwatched" ELSE IF b < run.first THEN "early" ELSE l
  <1>1. /\ tlb[l] # Nothing /\ tlb[l].first = Page(b) /\ tlb[l].write # "no" /\ b % n = 0
        /\ cache' = Touched(Without(C), B, who)
        /\ run' = IF Quits(C, b) THEN Nothing ELSE IF Covers(run, B) THEN Blamed(run, how) ELSE run
      BY DEF Write
  <1>2. care => C = Below(b) \cap marked
      OBVIOUS
  <1>3. CASE run' = Nothing
      BY <1>3 DEF RunKnown, RunsFresh
  <1>4. CASE run' = Blamed(run, how) /\ Covers(run, B) /\ ~Quits(C, b)
    <2>1. how \in run.others \cup {"early", "unwatched"}
        BY <1>1, <1>2, <1>4, WriteIsSeen
    <2>2. run # Nothing
        BY <1>4 DEF Covers
    <2> HIDE DEF C, B, who, how
    <2>3. /\ run'.first = run.first /\ run'.last = run.last /\ run'.others = run.others
          /\ run'.stale = run.stale \cup {how}
        BY <1>4 DEF Blamed
    <2>4. RunKnown'
        BY <1>1, <2>2, <2>3, RunStaysKnown
    <2>5. RunsFresh'
        BY <2>1, <2>2, <2>3 DEF RunsFresh
    <2> QED BY <2>4, <2>5
  <1>5. CASE run' = run /\ run # Nothing
    <2> HIDE DEF C, B, who
    <2>1. RunKnown'
        BY <1>1, <1>5, RunStaysKnown
    <2> QED BY <1>5, <2>1 DEF RunsFresh
  <1> HIDE DEF C, B, how
  <1> QED BY <1>1, <1>3, <1>4, <1>5

\* A change of memory that misses the run is said to have missed it.
LEMMA MissedFresh ==
  ASSUME RunKnown, RunsFresh, NEW C, NEW B, NEW who, cache' = Touched(Without(C), B, who),
         \/ run' = Nothing \/ run' = run
         \/ run # Nothing /\ run' = Blamed(run, "missed")
  PROVE  RunKnown' /\ RunsFresh'
  <1>1. CASE run' = Nothing
      BY <1>1 DEF RunKnown, RunsFresh
  <1>2. CASE run' = run /\ run # Nothing
      BY <1>2, RunStaysKnown DEF RunsFresh
  <1>3. CASE run' = Blamed(run, "missed") /\ run # Nothing
    <2>1. /\ run'.first = run.first /\ run'.last = run.last /\ run'.others = run.others
          /\ run'.stale = run.stale \cup {"missed"}
        BY <1>3 DEF Blamed
    <2>2. RunKnown'
        BY <1>3, <2>1, RunStaysKnown
    <2> QED BY <1>3, <2>1, <2>2 DEF RunsFresh
  <1> QED BY <1>1, <1>2, <1>3

\* Every step keeps the trace that runs fresh.
LEMMA NextFresh ==
  ASSUME Inv, tlb \in [Lin -> Views], NothingStale, RunKnown, RunsFresh, [Next]_vars
  PROVE  RunKnown' /\ RunsFresh'
  <1> DEFINE Goal == RunKnown' /\ RunsFresh'
  <1>1. ASSUME UNCHANGED <<cache, run>> PROVE Goal
      BY <1>1 DEF RunKnown, RunsFresh, WatchedRun
  <1>2. ASSUME run' = Nothing PROVE Goal
      BY <1>2 DEF RunKnown, RunsFresh
  <1>3. ASSUME NEW l \in Lin, NEW b \in Starts, Lookup(l, b) PROVE Goal
    <2>1. /\ cache[Slot(b)].first = b /\ run' = cache[Slot(b)] /\ cache' = cache
          /\ b \in Bytes /\ Slot(b) \in AllSlots
        BY <1>3, InputAssumption, GeometryAssumption DEF Lookup
    <2>2. cache[Slot(b)] # Nothing
        BY <2>1, BytesAreNotNothing
    <2>3. Blameless(cache[Slot(b)])
        BY <2>1, <2>2, SlotBySlot
    <2>4. RunKnown'
        BY <2>1 DEF RunKnown
    <2> QED BY <2>1, <2>3, <2>4 DEF RunsFresh, Blameless
  <1>4. ASSUME NEW l \in Lin, NEW b \in Starts, Decode(l, b) PROVE Goal
    <2>1. PICK t : /\ t.first = b /\ t.stale = {} /\ run' = t /\ cache'[Slot(b)] = t
      <3>1. Slot(b) \in AllSlots
          BY InputAssumption, GeometryAssumption
      <3> QED BY <1>4, <3>1 DEF Decode
    <2>2. b \in Bytes
        BY InputAssumption
    <2> QED BY <2>1, <2>2 DEF RunKnown, RunsFresh
  <1>5. ASSUME NEW l \in Lin, NEW b \in Bytes, NEW n \in Sizes, Write(l, b, n) PROVE Goal
      BY <1>5, WriteFresh
  <1>6. ASSUME NEW l \in Lin, NEW b \in Bytes, NEW n \in WideSizes, WideStore(l, b, n) PROVE Goal
    <2> DEFINE B == b..(b + n - 1)
               who == [s \in AllSlots |-> "missed"]
    <2>1. /\ cache' = Touched(cache, B, who)
          /\ run' = IF Covers(run, B) THEN Blamed(run, "missed") ELSE run
        BY <1>6 DEF WideStore
    <2> HIDE DEF B, who
    <2>2. Touched(cache, B, who) = Touched(Without({}), B, who)
        BY DEF Touched, Without
    <2>3. \/ run' = run
          \/ run # Nothing /\ run' = Blamed(run, "missed")
        BY <2>1 DEF Covers
    <2> QED BY <2>1, <2>2, <2>3, MissedFresh
  <1>7. ASSUME NEW P, NEW B, NEW who, Transfer(P, B, who) PROVE Goal
    <2>1. PICK C : cache' = Touched(Without(C), B, who)
        BY <1>7 DEF Transfer
    <2>2. \/ run' = Nothing \/ run' = run
          \/ run # Nothing /\ run' = Blamed(run, "missed")
        BY <1>7 DEF Transfer, Covers
    <2> QED BY <2>1, <2>2, MissedFresh
  <1>8. ASSUME NEW b \in Bytes, NEW n \in Amounts, DiskTransfer(b, n) \/ ChannelTransfer(b, n) PROVE Goal
    <2>1. \E P, B, who : Transfer(P, B, who)
        BY <1>8 DEF DiskTransfer, ChannelTransfer
    <2> QED BY <1>7, <2>1
  <1>9. ASSUME NEW l \in Lin, NEW p \in 0..(Pages - 1), NEW write \in BOOLEAN, Fill(l, p, write)
        PROVE  Goal
      BY <1>1, <1>9 DEF Fill
  <1>10. ASSUME NEW l \in Lin, Drop(l) PROVE Goal
      BY <1>1, <1>10 DEF Drop
  <1>11. ASSUME Leave PROVE Goal
      BY <1>2, <1>11 DEF Leave
  <1>12. ASSUME UNCHANGED vars PROVE Goal
      BY <1>1, <1>12 DEF vars
  <1> HIDE DEF Goal
  <1> QED BY <1>3, <1>4, <1>5, <1>6, <1>8, <1>9, <1>10, <1>11, <1>12 DEF Next, Goal

\* A trace that changes its own code does not run on with the old, but for the
\* ways the code leaves open.
THEOREM AlwaysFresh == Spec => []RunsFresh
  <1> DEFINE Whole == Inv /\ tlb \in [Lin -> Views] /\ NothingStale /\ RunKnown /\ RunsFresh
  <1>1. Init => Whole
    <2> SUFFICES ASSUME Init PROVE Whole
        OBVIOUS
    <2>1. \A s \in AllSlots : cache[s] = Nothing
        BY DEF Init
    <2>2. tlb \in [Lin -> Views] /\ run = Nothing
        BY DEF Init, Views
    <2> QED BY <2>1, <2>2, SlotBySlot DEF Inv, RunKnown, RunsFresh
  <1>2. Whole /\ [Next]_vars => Whole'
      BY NextInv, NextStale, NextFresh
  <1> QED BY <1>1, <1>2, PTL DEF Spec
=============================================================================
