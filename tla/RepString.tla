----------------------------- MODULE RepString ------------------------------
(***************************************************************************)
(* The string instructions of crates/cpu/src/lib.rs: MOVS, STOS, LODS,     *)
(* SCAS and CMPS, INS and OUTS, alone or behind REP, over memory some of   *)
(* whose pages are absent.  A repeated instruction keeps the elements it   *)
(* has completed when one faults, so it restarts in the middle: unlike the *)
(* other instructions (Restart) it undoes one element, not all of them.    *)
(*                                                                         *)
(* SI and DI wrap at IndexSize as the 16-bit registers do; an element is   *)
(* one cell or two, and one that begins at the last cell runs past it.     *)
(***************************************************************************)
EXTENDS Integers, Sequences, FiniteSets

CONSTANTS IndexSize,    \* SI and DI are 0 .. IndexSize - 1
          PageCells,    \* cells of a page
          MaxCount      \* largest CX

StrCells == 0 .. IndexSize
StrPages == {a \div PageCells : a \in StrCells}
Accumulator == 1
StringOps == {"movs", "stos", "lods", "scas", "cmps", "ins", "outs"}
Conditional(op) == op \in {"scas", "cmps"}
IsIo(op) == op \in {"ins", "outs"}
NoPending == -1

VARIABLES strStart,     \* the machine before the instruction
          str,          \* now
          strPhase      \* "run", "fault" or "done"

strVars == <<strStart, str, strPhase>>

-----------------------------------------------------------------------------
\* An element of n cells; nothing is read or written once a fault is pending.
Absent(s, at) == {a \in at .. at + s.n - 1 : a \div PageCells \notin s.mapped}

Read(s, at) ==
  LET bad == Absent(s, at) IN
  IF s.pend # NoPending \/ bad # {}
  THEN [s EXCEPT !.v = [i \in 1 .. s.n |-> 0],
                 !.pend = IF @ # NoPending THEN @ ELSE (CHOOSE a \in bad : \A b \in bad : a <= b)]
  ELSE [s EXCEPT !.v = [i \in 1 .. s.n |-> s.mem[at + i - 1]]]

Write(s, at, v) ==
  LET bad == Absent(s, at)
      first == CHOOSE a \in bad : \A b \in bad : a <= b
      upTo == IF bad = {} THEN at + s.n ELSE first IN
  IF s.pend # NoPending THEN s
  ELSE [s EXCEPT !.mem = [a \in StrCells |-> IF a \in at .. upTo - 1 THEN v[a - at + 1] ELSE @[a]],
                 !.pend = IF bad = {} THEN NoPending ELSE first]

\* string_delta_n_u32, advance_si_for_string, advance_di_for_string.
Delta(s) == IF s.df THEN -s.n ELSE s.n
AdvanceSi(s) == [s EXCEPT !.si = (@ + Delta(s)) % IndexSize]
AdvanceDi(s) == [s EXCEPT !.di = (@ + Delta(s)) % IndexSize]

\* Flags of a comparison: the operands compared; ZF is their equality.
Compare(s, a, b) == [s EXCEPT !.fl = <<a, b>>]
Zf(s) == s.fl[1] = s.fl[2]

StepMovs(s) == LET r == Read(s, s.si) IN AdvanceDi(AdvanceSi(Write(r, s.di, r.v)))
StepStos(s) == AdvanceDi(Write(s, s.di, s.ax))
StepLods(s) == LET r == Read(s, s.si) IN AdvanceSi([r EXCEPT !.ax = r.v])
StepScas(s) == LET r == Read(s, s.di) IN AdvanceDi(Compare(r, s.ax, r.v))
StepCmps(s) ==
  LET a == Read(s, s.si)
      b == Read(a, s.di) IN
  AdvanceDi(AdvanceSi(Compare(b, a.v, b.v)))

\* INS takes from the port before it stores; OUTS sends whatever it read.
StepIns(s) ==
  LET v == [i \in 1 .. s.n |-> <<"port", s.taken + i>>] IN
  AdvanceDi([Write(s, s.di, v) EXCEPT !.taken = @ + s.n])
StepOuts(s) == LET r == Read(s, s.si) IN AdvanceSi([r EXCEPT !.sent = Append(@, r.v)])

StepStringIo(s) == IF s.op = "ins" THEN StepIns(s) ELSE StepOuts(s)

StepString(s) ==
  CASE s.op = "movs" -> StepMovs(s)
    [] s.op = "cmps" -> StepCmps(s)
    [] s.op = "stos" -> StepStos(s)
    [] s.op = "lods" -> StepLods(s)
    [] s.op = "scas" -> StepScas(s)

\* Not the code: DI keeps the step past the faulting element.
UndoSourceOnly(s, before) == [s EXCEPT !.si = before.si, !.fl = before.fl]

\* The faulting element gives SI, DI and the flags back.
UndoElement(s, before) == [s EXCEPT !.si = before.si, !.di = before.di, !.fl = before.fl]

SingleShot(s) ==
  LET t == IF IsIo(s.op) THEN StepStringIo(s) ELSE StepString(s) IN
  IF t.pend # NoPending THEN UndoElement(t, s) ELSE t

\* One iteration of the REP loop; "stop" breaks out of it.
Element(s) ==
  LET t == IF IsIo(s.op) THEN StepStringIo(s) ELSE StepString(s)
      c == [t EXCEPT !.cx = @ - 1] IN
  IF s.cx = 0 THEN [s EXCEPT !.stop = TRUE]
  ELSE IF t.pend # NoPending THEN [UndoElement(t, s) EXCEPT !.stop = TRUE]
  ELSE [c EXCEPT !.stop = Conditional(s.op) /\ (IF s.rep = "repe" THEN ~Zf(c) ELSE Zf(c))]

RepLoop(s) ==
  LET loop[i \in 0 .. MaxCount + 1] ==
        IF i = 0 THEN [s EXCEPT !.stop = FALSE]
        ELSE IF loop[i - 1].stop THEN loop[i - 1] ELSE Element(loop[i - 1]) IN
  [loop[MaxCount + 1] EXCEPT !.stop = FALSE]

-----------------------------------------------------------------------------
StrExecute ==
  /\ strPhase = "run"
  /\ str' = [(IF str.rep = "none" THEN SingleShot(str) ELSE RepLoop(str)) EXCEPT !.v = <<>>]
  /\ strPhase' = IF str'.pend # NoPending THEN "fault" ELSE "done"
  /\ UNCHANGED strStart

\* #PF, the guest's handler, which maps the page, and IRET to the same
\* instruction with the registers the fault found.
StrFault ==
  /\ strPhase = "fault"
  /\ str' = [str EXCEPT !.mapped = @ \cup {str.pend \div PageCells}, !.pend = NoPending]
  /\ strPhase' = "run"
  /\ UNCHANGED strStart

\* For the comparisons all cells but one agree.
Marks == {1, IndexSize \div 2, IndexSize}
Contents(op) ==
  IF Conditional(op)
  THEN {[a \in StrCells |-> IF a = k THEN v ELSE 3 - v] : k \in Marks, v \in {Accumulator, 2}}
  ELSE {[a \in StrCells |-> 10 + a]}

StrInit ==
  /\ \E op \in StringOps, n \in 1 .. 2, rep \in {"none", "repe", "repne"}, df \in BOOLEAN,
        cx \in 0 .. MaxCount, si, di \in 0 .. IndexSize - 1, mapped \in SUBSET StrPages :
       /\ rep = "repne" => Conditional(op)
       /\ rep = "none" => cx = MaxCount
       /\ op \in {"stos", "scas", "ins"} => si = 0
       /\ op \in {"lods", "outs"} => di = 0
       /\ \E mem \in Contents(op) :
            strStart = [op |-> op, n |-> n, rep |-> rep, df |-> df, cx |-> cx, si |-> si, di |-> di,
                        mem |-> mem, mapped |-> mapped, ax |-> [i \in 1 .. n |-> Accumulator],
                        fl |-> <<0, 1>>, taken |-> 0, sent |-> <<>>, v |-> <<>>,
                        pend |-> NoPending, stop |-> FALSE]
  /\ str = strStart
  /\ strPhase = "run"

StrNext == StrExecute \/ StrFault
StrSpec == StrInit /\ [][StrNext]_strVars

-----------------------------------------------------------------------------
(***************************************************************************)
(* What the instruction set says of the whole instruction, in terms of its *)
(* start alone: which elements it covers, and what becomes of them.        *)
(***************************************************************************)
At(s, x, i) == (x + i * Delta(s)) % IndexSize
CellsOf(s, x, i) == At(s, x, i) .. At(s, x, i) + s.n - 1
ElementOf(s, x, i) == [j \in 1 .. s.n |-> s.mem[At(s, x, i) + j - 1]]
Offset(s, x, i, a) == a - At(s, x, i) + 1

Limit(s) == IF s.rep = "none" THEN 1 ELSE s.cx
Left(s, i) == IF s.op = "scas" THEN s.ax ELSE ElementOf(s, s.si, i)
Ends(s, i) == (Left(s, i) = ElementOf(s, s.di, i)) = (s.rep = "repne")

\* How many elements the instruction covers.
Covered(s) ==
  IF ~Conditional(s.op) \/ s.rep = "none" THEN Limit(s)
  ELSE CHOOSE k \in 0 .. Limit(s) :
         /\ \A i \in 0 .. k - 2 : ~Ends(s, i)
         /\ k = Limit(s) \/ (k > 0 /\ Ends(s, k - 1))

Stored(s, i) ==
  CASE s.op = "movs" -> ElementOf(s, s.si, i)
    [] s.op = "stos" -> s.ax
    [] s.op = "ins" -> [j \in 1 .. s.n |-> <<"port", i * s.n + j>>]

Memory(s, k) ==
  [a \in StrCells |->
     IF s.op \in {"movs", "stos", "ins"} /\ \E i \in 0 .. k - 1 : a \in CellsOf(s, s.di, i)
     THEN LET i == CHOOSE i \in 0 .. k - 1 : a \in CellsOf(s, s.di, i) IN
          Stored(s, i)[Offset(s, s.di, i, a)]
     ELSE s.mem[a]]

Outcome(s) ==
  LET k == Covered(s) IN
  [s EXCEPT
     !.si = IF s.op \in {"movs", "lods", "cmps", "outs"} THEN At(s, @, k) ELSE @,
     !.di = IF s.op \in {"movs", "stos", "scas", "cmps", "ins"} THEN At(s, @, k) ELSE @,
     !.cx = IF s.rep = "none" THEN @ ELSE @ - k,
     !.ax = IF s.op = "lods" /\ k > 0 THEN ElementOf(s, s.si, k - 1) ELSE @,
     !.fl = IF Conditional(s.op) /\ k > 0 THEN <<Left(s, k - 1), ElementOf(s, s.di, k - 1)>> ELSE @,
     !.mem = Memory(s, k),
     !.taken = IF s.op = "ins" THEN k * s.n ELSE @,
     !.sent = IF s.op = "outs" THEN [i \in 1 .. k |-> ElementOf(s, s.si, i - 1)] ELSE @,
     !.mapped = str.mapped]

\* A copy whose destination does not run into what it has still to read.
Separate(s) ==
  s.op = "movs" => \A i, j \in 0 .. Limit(s) - 1 :
                     i <= j => CellsOf(s, s.di, i) \cap CellsOf(s, s.si, j) = {}

(***************************************************************************)
(* Each element once: however often an absent page interrupts the          *)
(* instruction, it ends as the instruction set says of the uninterrupted   *)
(* one: no element is skipped or done twice, the count, indices and flags  *)
(* are those of the last element, and a comparison ends at the first       *)
(* element that decides it.  (INS and OUTS: with their memory present.)    *)
(***************************************************************************)
ElementOnce ==
  strPhase = "done" /\ Separate(strStart) /\ (IsIo(strStart.op) => strStart.mapped = StrPages)
    => str = Outcome(strStart)
=============================================================================
