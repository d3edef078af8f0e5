------------------------------- MODULE Strings -------------------------------
(* The string instructions of src/src/cpu/string.cpp with their repeat      *)
(* prefixes: each element is read and written under the page tables, a page *)
(* fault ends the function in the middle, and after a number of elements    *)
(* the function returns to let the slice end.  The instruction is then run  *)
(* again from what the registers have become.                               *)
EXTENDS Integers, Sequences, FiniteSets

CONSTANTS Size,       \* what the address registers wrap at: 64K, or 4G
          PageSize,   \* bytes of a page
          Cap,        \* elements of one run of the function: 65536 in the code
          MaxCount,   \* bound on the count
          Images      \* contents of memory the instruction may find
ASSUME Bounds == /\ Size \in Nat \ {0} /\ PageSize \in Nat \ {0}
                 /\ Cap \in Nat \ {0} /\ MaxCount \in Nat \ {0}

\* A value of two bytes at the last address lies beyond it.
Addresses == 0..Size
Page(a)   == a \div PageSize
Pages     == {Page(a) : a \in Addresses}
ASSUME ImagesAssumption == \A m \in Images : m = [a \in Addresses |-> m[a]]

\* Where an element comes from, what it is compared with, where it goes.
Movs == [from |-> "si", with |-> "none", to |-> "di"]
Stos == [from |-> "acc", with |-> "none", to |-> "di"]
Scas == [from |-> "acc", with |-> "di", to |-> "flags"]
Ins  == [from |-> "port", with |-> "none", to |-> "di"]
Outs == [from |-> "si", with |-> "none", to |-> "port"]
Cmps == [from |-> "si", with |-> "di", to |-> "flags"]
Lods == [from |-> "si", with |-> "none", to |-> "acc"]
Operations == {Movs, Stos, Scas, Ins, Outs, Cmps, Lods}

VARIABLES form,     \* the instruction: op, rep ("none", "z" or "nz"), width, down
          mem, acc, si, di, cx, flags,
          taken,    \* elements read from the port
          sent,     \* elements written to the port
          absent,   \* pages that fault
          pc,       \* entry, read, other, write, next, fault, done or denied
          left,     \* elements this run of the function may still move
          buf,      \* the element in hand
          half,     \* bytes of it that have been written
          lost,     \* elements read from the port whose write faulted
          torn,     \* a write faulted with its first byte written
          was       \* what the instruction began with
stringVars == <<form, mem, acc, si, di, cx, flags, taken, sent, absent, pc, left, buf, half, lost, torn, was>>
place == <<mem, acc, si, di, cx, flags, taken, sent>>

Forms == [op : Operations, rep : {"none", "z", "nz"}, width : {1, 2}, down : BOOLEAN]
Bytes(m, a) == [j \in 1..form.width |-> m[a + j - 1]]
\* What the port gives as its n-th element.
PortElement(n) == [j \in 1..form.width |-> 10 + n]
Add == IF form.down THEN Size - form.width ELSE form.width
Repeats == form.rep # "none"

StringInit ==
        /\ form \in Forms /\ mem \in Images /\ si \in 0..(Size - 1) /\ di \in 0..(Size - 1)
        /\ cx \in 0..MaxCount /\ acc \in {[j \in 1..form.width |-> 0]}
        /\ flags = <<>> /\ taken = 0 /\ sent = <<>> /\ absent \in SUBSET Pages
        /\ pc = "entry" /\ left = 0 /\ buf = <<>> /\ half = 0 /\ lost = 0 /\ torn = FALSE
        /\ was = [mem |-> mem, acc |-> acc, si |-> si, di |-> di, cx |-> cx]

----------------------------------------------------------------------------
(* The function.                                                           *)

Smaller(a, b) == IF a < b THEN a ELSE b

\* How many elements this run may move; the others end the function when it
\* has begun.  INS and OUTS look at the port's permission first.
Enter == /\ pc = "entry"
         /\ left' = IF Repeats THEN Smaller(cx, Cap) ELSE 1
         /\ pc' = IF left' = 0 THEN "done" ELSE "read"
         /\ UNCHANGED <<form, place, absent, buf, half, lost, torn, was>>
Deny == /\ pc = "entry" /\ (form.op = Ins \/ form.op = Outs) /\ pc' = "denied"
        /\ UNCHANGED <<form, place, absent, left, buf, half, lost, torn, was>>

\* A value within one page is looked up as a whole, another byte by byte.
Spans(a)   == {Page(a + j - 1) : j \in 1..form.width}
FaultAt(p) == /\ p \in absent /\ pc' = "fault" /\ absent' = absent \ {p}

\* The element is read, or the guest brings its page in.
Read == /\ pc = "read" /\ pc' = IF form.op.with = "di" THEN "other" ELSE "write"
        /\ CASE form.op.from = "si"   -> Spans(si) \cap absent = {} /\ buf' = Bytes(mem, si)
             [] form.op.from = "acc"  -> buf' = acc
             [] form.op.from = "port" -> buf' = PortElement(taken)
        /\ taken' = IF form.op.from = "port" THEN taken + 1 ELSE taken
        /\ half' = 0
        /\ UNCHANGED <<form, mem, acc, si, di, cx, flags, sent, absent, left, lost, torn, was>>
ReadFault == /\ \/ pc = "read" /\ form.op.from = "si" /\ \E p \in Spans(si) : FaultAt(p)
                \/ pc = "other" /\ \E p \in Spans(di) : FaultAt(p)
             /\ UNCHANGED <<form, place, left, buf, half, lost, torn, was>>

\* SCAS and CMPS: the other element, and the flags of the comparison.
Compare ==
  /\ pc = "other" /\ Spans(di) \cap absent = {}
  /\ flags' = <<buf, Bytes(mem, di)>> /\ pc' = "next"
  /\ UNCHANGED <<form, mem, acc, si, di, cx, taken, sent, absent, left, buf, half, lost, torn, was>>

\* An element across two pages is written byte by byte.
WriteMemory ==
  /\ pc = "write" /\ form.op.to = "di" /\ Page(di + half) \notin absent
  /\ LET whole == Cardinality(Spans(di)) = 1
     IN /\ mem' = [a \in Addresses |->
                     IF a \in di..(di + form.width - 1) /\ (whole \/ a = di + half)
                     THEN buf[a - di + 1] ELSE mem[a]]
        /\ half' = IF whole THEN form.width ELSE half + 1
        /\ pc' = IF half' = form.width THEN "next" ELSE "write"
  /\ UNCHANGED <<form, acc, si, di, cx, flags, taken, sent, absent, left, buf, lost, torn, was>>
WriteFault ==
  /\ pc = "write" /\ form.op.to = "di" /\ FaultAt(Page(di + half))
  /\ torn' = (torn \/ half > 0)
  /\ lost' = IF form.op = Ins THEN lost + 1 ELSE lost
  /\ UNCHANGED <<form, place, left, buf, half, was>>
Deliver ==
  /\ pc = "write" /\ form.op.to # "di" /\ pc' = "next"
  /\ acc' = IF form.op.to = "acc" THEN buf ELSE acc
  /\ sent' = IF form.op.to = "port" THEN Append(sent, buf) ELSE sent
  /\ UNCHANGED <<form, mem, si, di, cx, flags, taken, absent, left, buf, half, lost, torn, was>>

----------------------------------------------------------------------------
(* The registers after an element, and the end of the function.            *)

Uses(r)   == r \in {form.op.from, form.op.with, form.op.to}
Decided   == /\ form.op.to = "flags"
             /\ (form.rep = "z" /\ flags[1] # flags[2]) \/ (form.rep = "nz" /\ flags[1] = flags[2])

\* Mutant: the count is not brought up to date when the comparison decides.
NextDecidedEarly ==
  /\ pc = "next"
  /\ si' = (IF Uses("si") THEN (si + Add) % Size ELSE si)
  /\ di' = (IF Uses("di") THEN (di + Add) % Size ELSE di)
  /\ cx' = (IF Repeats /\ ~ Decided THEN cx - 1 ELSE cx)
  /\ left' = left - 1
  /\ pc' = IF Decided \/ ~ Repeats THEN "done"
           ELSE IF left' > 0 THEN "read" ELSE IF cx' = 0 THEN "done" ELSE "entry"
  /\ UNCHANGED <<form, mem, acc, flags, taken, sent, absent, buf, half, lost, torn, was>>

\* Mutant: the instruction is over when the function has moved its elements.
NextOver ==
  /\ pc = "next"
  /\ si' = (IF Uses("si") THEN (si + Add) % Size ELSE si)
  /\ di' = (IF Uses("di") THEN (di + Add) % Size ELSE di)
  /\ cx' = (IF Repeats THEN cx - 1 ELSE cx)
  /\ left' = left - 1
  /\ pc' = IF Decided \/ left' = 0 THEN "done" ELSE "read"
  /\ UNCHANGED <<form, mem, acc, flags, taken, sent, absent, buf, half, lost, torn, was>>

NextElement ==
  /\ pc = "next"
  /\ si' = (IF Uses("si") THEN (si + Add) % Size ELSE si)
  /\ di' = (IF Uses("di") THEN (di + Add) % Size ELSE di)
  /\ cx' = (IF Repeats THEN cx - 1 ELSE cx)
  /\ left' = left - 1
  /\ pc' = IF Decided \/ ~ Repeats THEN "done"
           ELSE IF left' > 0 THEN "read" ELSE IF cx' = 0 THEN "done" ELSE "entry"
  /\ UNCHANGED <<form, mem, acc, flags, taken, sent, absent, buf, half, lost, torn, was>>

\* The guest has brought the page in and returns to the instruction.
Return == /\ pc = "fault" /\ pc' = "entry"
          /\ UNCHANGED <<form, place, absent, left, buf, half, lost, torn, was>>

StringNext == \/ Enter \/ Deny \/ Read \/ ReadFault \/ Compare \/ WriteMemory \/ WriteFault
              \/ Deliver \/ NextElement \/ Return
StringSpec == StringInit /\ [][StringNext]_stringVars

----------------------------------------------------------------------------
(* What instruction i is to do, an element at a time.                      *)

Values(i, m, a) == [j \in 1..i.width |-> m[a + j - 1]]
InHand(i, s) == s.di..(s.di + i.width - 1)
Along(i, r)  == (r + (IF i.down THEN Size - i.width ELSE i.width)) % Size
Fetched(i, s) ==
  CASE i.op.from = "si"   -> Values(i, s.mem, s.si)
    [] i.op.from = "acc"  -> s.acc
    [] i.op.from = "port" -> [j \in 1..i.width |-> 10 + s.n]

Element(i, s) ==
  LET e == Fetched(i, s)
  IN [mem |-> IF i.op.to # "di" THEN s.mem
              ELSE [a \in Addresses |-> IF a \in InHand(i, s) THEN e[a - s.di + 1] ELSE s.mem[a]],
      acc |-> IF i.op.to = "acc" THEN e ELSE s.acc,
      si |-> IF i.op.from = "si" THEN Along(i, s.si) ELSE s.si,
      di |-> IF i.op \in {Outs, Lods} THEN s.di ELSE Along(i, s.di),
      cx |-> IF i.rep # "none" THEN s.cx - 1 ELSE s.cx,
      flags |-> IF i.op.to = "flags" THEN <<e, Values(i, s.mem, s.di)>> ELSE s.flags,
      sent |-> IF i.op.to = "port" THEN Append(s.sent, e) ELSE s.sent,
      n |-> s.n + 1]

\* The state after n elements of i, which began with w.
Start(w) == [mem |-> w.mem, acc |-> w.acc, si |-> w.si, di |-> w.di, cx |-> w.cx,
             flags |-> <<>>, sent |-> <<>>, n |-> 0]
Elements(i, w) ==
  LET f[k \in 0..MaxCount] == IF k = 0 THEN Start(w) ELSE Element(i, f[k - 1])
  IN f
After(n) == Elements(form, was)[n]
Agrees(s) == /\ acc = s.acc /\ si = s.si /\ di = s.di /\ cx = s.cx
             /\ flags = s.flags /\ sent = s.sent

----------------------------------------------------------------------------
(* Properties.                                                             *)

\* Elements that have been moved, by the count; whether the guest, or the
\* next instruction, sees the registers.
Moved   == IF Repeats THEN was.cx - cx ELSE IF pc = "done" THEN 1 ELSE 0
Visible == pc \in {"entry", "fault", "done", "denied"}

\* An interrupted instruction goes on where it was.  Whenever a page fault is
\* delivered, or the slice may end, the registers are those after a whole
\* number of elements, and that number is what the count says.  Memory too, but
\* for the element in hand.  Not so where a write across two pages has faulted
\* between its bytes and MOVS then reads again what it has overwritten; and INS
\* has lost what it had read from the port: it reads it once for each element
\* stored, and once more for each write that faulted.
RegistersResume == Moved \in 0..MaxCount /\ Agrees(After(Moved))
MemoryResumes ==
  ~ (form.op = Movs /\ torn) /\ ~ (form.op = Ins /\ lost > 0)
    => LET s == After(Moved)
           Hand == IF pc = "done" THEN {} ELSE InHand(form, s)
       IN \A a \in Addresses \ Hand : mem[a] = s.mem[a]
PortResumes == taken = IF form.op = Ins THEN Moved + lost ELSE 0
Resumes == Visible => RegistersResume /\ MemoryResumes /\ PortResumes

\* The comparison that led to s ends instruction i.
Stops(i, s) == /\ s.flags # <<>> /\ i.rep # "none"
               /\ (i.rep = "z") = (s.flags[1] # s.flags[2])

\* The instruction ends when the count is used up or the comparison says so,
\* and never goes past an element at which it had to end.
EndsWhereItShould ==
  /\ pc = "done" /\ Repeats => cx = 0 \/ Decided
  /\ Visible /\ Repeats => \A k \in 1..(Moved - 1) : ~ Stops(form, After(k))
=============================================================================
