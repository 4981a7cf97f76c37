----------------------------- MODULE KbdProofs ------------------------------
(***************************************************************************)
(* A byte that waits at the keyboard controller is signalled, and the      *)
(* acknowledgement a device owes is its own, for every sequence of         *)
(* commands, packets and reads.                                            *)
(***************************************************************************)
EXTENDS Kbd8042, FiniteSetTheorems, FunctionTheorems, SequenceTheorems, TLAPS

Pendings == {"None", "WriteCcb", "WriteAux", "WriteKbdOut", "WriteAuxOut"}
Kbds ==
  [out : Seq(Waiting), queue : Nat, ccb : SUBSET CcbBits, kbd_enabled : BOOLEAN,
   aux_enabled : BOOLEAN, pending : Pendings, kbd_arg : {"None", "rate", "scanset"},
   mouse_arg : BOOLEAN, reporting : BOOLEAN]
Owed == [next : {"kbd", "aux", "ctrl"}, kbd : Nat, aux : Nat]

Count(s, a) == Cardinality(Acks(s, a))

LEMMA AcksFinite ==
  ASSUME NEW s \in Seq(Waiting), NEW a
  PROVE  IsFiniteSet(Acks(s, a)) /\ Count(s, a) \in Nat /\ Acks(s, a) \subseteq 1 .. Len(s)
<1>1. Acks(s, a) \in SUBSET (1 .. Len(s)) /\ Len(s) \in Int
  BY DEF Acks
<1>2. IsFiniteSet(1 .. Len(s))
  BY <1>1, FS_Interval
<1>3. IsFiniteSet(Acks(s, a))
  BY <1>1, <1>2, FS_Subset, Zenon
<1> QED
  BY <1>1, <1>3, FS_CardinalityType, Zenon DEF Count

\* One more byte at the end.
LEMMA CountAppend ==
  ASSUME NEW s \in Seq(Waiting), NEW aux \in BOOLEAN, NEW a
  PROVE  LET t == Append(s, [aux |-> aux, ack |-> FALSE])
         IN  t \in Seq(Waiting) /\ Count(t, a) = Count(s, a)
<1>1. PICK b \in Waiting : b = [aux |-> aux, ack |-> FALSE] /\ ~b.ack
  <2>1. [aux |-> aux, ack |-> FALSE] \in Waiting
    BY Zenon DEF Waiting
  <2> QED
    BY <2>1, Zenon
<1>2. PICK t : t = Append(s, b)
  BY Zenon
<1>3. /\ t \in Seq(Waiting) /\ DOMAIN t = 1 .. Len(s) + 1 /\ DOMAIN s = 1 .. Len(s) /\ Len(s) \in Nat
      /\ \A i \in 1 .. Len(s) : t[i] = s[i]
      /\ t[Len(s) + 1] = b
  BY <1>2, AppendProperties
<1>4. ASSUME NEW i PROVE i \in Acks(t, a) <=> i \in Acks(s, a)
  <2>1. CASE i \in 1 .. Len(s)
    BY <1>3, <2>1 DEF Acks
  <2>2. CASE i = Len(s) + 1
    BY <1>1, <1>3, <2>2, Zenon DEF Acks
  <2>3. CASE i \notin 1 .. Len(s) + 1
    BY <1>3, <2>3 DEF Acks
  <2> QED
    BY <1>3, <2>1, <2>2, <2>3
<1>5. Acks(t, a) = Acks(s, a)
  BY <1>4, Zenon
<1> QED
  BY <1>1, <1>2, <1>3, <1>5, Zenon DEF Count

\* An answer at the end: n bytes of one device, the first an acknowledgement.
Answer(r, n, aux) ==
  /\ n \in Nat \ {0} /\ r \in [1 .. n -> Waiting]
  /\ \A i \in 1 .. n : r[i].aux = aux /\ (r[i].ack <=> i = 1)

LEMMA ReplyCounts ==
  ASSUME NEW s \in Seq(Waiting), NEW aux, NEW n, NEW r, Answer(r, n, aux), NEW other, other # aux
  PROVE  /\ s \o r \in Seq(Waiting)
         /\ Count(s \o r, aux) = Count(s, aux) + 1
         /\ Count(s \o r, other) = Count(s, other)
<1>3. /\ n \in Nat \ {0} /\ r \in [1 .. n -> Waiting]
      /\ \A i \in 1 .. n : r[i].aux = aux /\ (r[i].ack <=> i = 1)
  BY Zenon DEF Answer
<1>4. r \in Seq(Waiting) /\ Len(r) = n
  BY <1>3
<1>5. PICK t : t = s \o r
  BY Zenon
<1>6. /\ t \in Seq(Waiting) /\ DOMAIN t = 1 .. Len(s) + n /\ DOMAIN s = 1 .. Len(s) /\ Len(s) \in Nat
      /\ \A i \in 1 .. Len(s) : t[i] = s[i]
      /\ \A i \in Len(s) + 1 .. Len(s) + n : t[i] = r[i - Len(s)]
  BY <1>4, <1>5, ConcatProperties
<1>7. \A i \in Len(s) + 1 .. Len(s) + n : t[i].aux = aux /\ (t[i].ack <=> i = Len(s) + 1)
  <2> SUFFICES ASSUME NEW i \in Len(s) + 1 .. Len(s) + n
               PROVE  t[i].aux = aux /\ (t[i].ack <=> i = Len(s) + 1)
    BY Zenon
  <2>1. PICK l \in Nat : l = Len(s)
    BY <1>6, Zenon
  <2>2. i - l \in 1 .. n /\ (i - l = 1 <=> i = l + 1)
    BY <1>3, <2>1
  <2>3. PICK j \in 1 .. n : j = i - l
    BY <2>2, Zenon
  <2>4. t[i] = r[j]
    BY <1>6, <2>1, <2>3, Zenon
  <2>5. r[j].aux = aux /\ (r[j].ack <=> j = 1)
    BY <1>3, Zenon
  <2> QED
    BY <2>1, <2>2, <2>3, <2>4, <2>5, Zenon
<1>8. ASSUME NEW i, NEW a PROVE i \in Acks(t, a) <=> i \in Acks(s, a) \/ (a = aux /\ i = Len(s) + 1)
  <2>1. CASE i \in 1 .. Len(s)
    <3>1. i \in DOMAIN t /\ i \in DOMAIN s /\ i # Len(s) + 1
      BY <1>3, <1>6, <2>1
    <3>2. t[i] = s[i]
      BY <1>6, <2>1, Zenon
    <3> QED
      BY <3>1, <3>2, Zenon DEF Acks
  <2>2. CASE i \in Len(s) + 1 .. Len(s) + n
    <3>1. i \in DOMAIN t /\ i \notin DOMAIN s
      BY <1>3, <1>6, <2>2
    <3>2. t[i].aux = aux /\ (t[i].ack <=> i = Len(s) + 1)
      BY <1>7, <2>2, Zenon
    <3> QED
      BY <3>1, <3>2, Zenon DEF Acks
  <2>3. CASE i \notin 1 .. Len(s) + n
    <3>1. i \notin DOMAIN t /\ i \notin DOMAIN s /\ i # Len(s) + 1
      BY <1>3, <1>6, <2>3
    <3> QED
      BY <3>1, Zenon DEF Acks
  <2> QED
    BY <1>3, <1>6, <2>1, <2>2, <2>3
<1>9. \A a : IsFiniteSet(Acks(s, a)) /\ Len(s) + 1 \notin Acks(s, a)
  BY <1>6, AcksFinite
<1>10. Acks(t, aux) = Acks(s, aux) \cup {Len(s) + 1} /\ Acks(t, other) = Acks(s, other)
  <2>1. \A i : i \in Acks(t, aux) <=> i \in Acks(s, aux) \/ i = Len(s) + 1
    BY <1>8, Zenon
  <2>2. \A i : i \in Acks(t, other) <=> i \in Acks(s, other)
    BY <1>8, Zenon
  <2> QED
    BY <2>1, <2>2, Zenon
<1>11. Cardinality(Acks(s, aux) \cup {Len(s) + 1}) = Cardinality(Acks(s, aux)) + 1
  BY <1>9, FS_AddElement, Zenon
<1>12. Count(t, aux) = Count(s, aux) + 1
  BY <1>10, <1>11, Zenon DEF Count
<1> QED
  BY <1>5, <1>6, <1>10, <1>12, Zenon DEF Count

\* The first byte is read.
LEMMA CountTail ==
  ASSUME NEW s \in Seq(Waiting), s # <<>>, NEW a
  PROVE  /\ Tail(s) \in Seq(Waiting) /\ Head(s) \in Waiting
         /\ Count(Tail(s), a) = IF Head(s).ack /\ Head(s).aux = a THEN Count(s, a) - 1 ELSE Count(s, a)
<1>1. PICK t : t = Tail(s)
  BY Zenon
<1>2. /\ t \in Seq(Waiting) /\ DOMAIN t = 1 .. Len(s) - 1 /\ DOMAIN s = 1 .. Len(s)
      /\ Len(s) \in Nat \ {0} /\ Head(s) = s[1] /\ Head(s) \in Waiting
      /\ \A i \in 1 .. Len(s) - 1 : t[i] = s[i + 1]
  BY <1>1, HeadTailProperties
<1> DEFINE S == Acks(s, a) \ {1}
           T == Acks(t, a)
           f == [i \in T |-> i + 1]
<1>3. \A i \in T : i \in 1 .. Len(s) - 1 /\ i + 1 \in S
  BY <1>2 DEF Acks
<1>4. \A j \in S : j - 1 \in T /\ j \in 2 .. Len(s) /\ (j - 1) + 1 = j
  BY <1>2 DEF Acks
<1>5. f \in [T -> S]
  BY <1>3, Zenon
<1>6. \A i, j \in T : f[i] = f[j] => i = j
  BY <1>3
<1>7. \A j \in S : \E i \in T : f[i] = j
  BY <1>4, Zenon
<1>8. f \in Bijection(T, S)
  BY <1>5, <1>6, <1>7, Fun_IsBij, Zenon
<1>9. IsFiniteSet(T) /\ IsFiniteSet(Acks(s, a))
  BY <1>2, AcksFinite, Zenon
<1>10. Cardinality(S) = Cardinality(T)
  BY <1>8, <1>9, FS_Bijection, Zenon DEF ExistsBijection
<1>11. Cardinality(S) = IF 1 \in Acks(s, a) THEN Cardinality(Acks(s, a)) - 1 ELSE Cardinality(Acks(s, a))
  BY <1>9, FS_RemoveElement, Zenon
<1>12. 1 \in Acks(s, a) <=> Head(s).ack /\ Head(s).aux = a
  BY <1>2 DEF Acks
<1> QED
  BY <1>1, <1>2, <1>10, <1>11, <1>12, Zenon DEF Count
\* A command may change what waits, its own parameters and nothing else; an
\* answered one leaves one acknowledgement more.
Same(k, j) ==
  /\ j \in Kbds
  /\ j.ccb = k.ccb /\ j.kbd_enabled = k.kbd_enabled /\ j.aux_enabled = k.aux_enabled
  /\ j.pending = k.pending
Kept(k, j) == Same(k, j) /\ \A b \in BOOLEAN : Count(j.out, b) = Count(k.out, b)
Acked(k, j, a, b) ==
  /\ Same(k, j)
  /\ Count(j.out, a) = Count(k.out, a) + 1
  /\ Count(j.out, b) = Count(k.out, b)

LEMMA OutPut ==
  ASSUME NEW k \in Kbds, NEW s \in Seq(Waiting)
  PROVE  LET j == [k EXCEPT !.out = s] IN Same(k, j) /\ j.out = s
BY Zenon DEF Kbds, Same

LEMMA ReplyAcks ==
  ASSUME NEW k, NEW j \in Kbds, Same(k, j), j.out = k.out, NEW n \in 1 .. 4,
         NEW aux \in BOOLEAN, NEW other, other # aux
  PROVE  Acked(k, Reply(j, aux, n), aux, other)
<1>1. PICK r : r = [i \in 1..n |-> [aux |-> aux, ack |-> i = 1]]
  BY Zenon
<1>2. r \in [1 .. n -> Waiting]
  <2>1. \A i \in 1 .. n : [aux |-> aux, ack |-> i = 1] \in Waiting
    BY Zenon DEF Waiting
  <2> QED
    BY <1>1, <2>1, Zenon
<1>3. \A i \in 1 .. n : r[i].aux = aux /\ (r[i].ack <=> i = 1)
  BY <1>1, Zenon
<1>4. Answer(r, n, aux)
  BY <1>2, <1>3 DEF Answer
<1>5. k.out \in Seq(Waiting)
  BY Zenon DEF Kbds
<1>6. PICK s : s = k.out \o r
  BY Zenon
<1>7. s \in Seq(Waiting) /\ Count(s, aux) = Count(k.out, aux) + 1 /\ Count(s, other) = Count(k.out, other)
  BY <1>4, <1>5, <1>6, ReplyCounts, SMT
<1>8. PICK l : l = [j EXCEPT !.out = s]
  BY Zenon
<1>9. Same(j, l) /\ l.out = s
  BY <1>7, <1>8, OutPut, Zenon
<1>10. Same(k, l)
  BY <1>9, Zenon DEF Same
<1>11. Reply(j, aux, n) = l
  BY <1>1, <1>6, <1>8, Zenon DEF Reply
<1> QED
  BY <1>7, <1>9, <1>10, <1>11, Zenon DEF Acked

LEMMA DatumKeeps ==
  ASSUME NEW k \in Kbds, NEW aux \in BOOLEAN
  PROVE  Kept(k, Datum(k, aux))
<1>1. k.out \in Seq(Waiting)
  BY Zenon DEF Kbds
<1>2. PICK s : s = Append(k.out, [aux |-> aux, ack |-> FALSE])
  BY Zenon
<1>3. s \in Seq(Waiting) /\ \A a \in BOOLEAN : Count(s, a) = Count(k.out, a)
  BY <1>1, <1>2, CountAppend, Zenon
<1>4. PICK r : r = [k EXCEPT !.out = s] /\ r = Datum(k, aux)
  BY <1>2, Zenon DEF Datum
<1>5. Same(k, r) /\ r.out = s
  BY <1>3, <1>4, OutPut, Zenon
<1> QED
  BY <1>3, <1>4, <1>5, Zenon DEF Kept

\* keyboard_command and mouse_command acknowledge every byte once.
LEMMA KeyboardAcks ==
  ASSUME NEW k \in Kbds, NEW cmd \in Commands
  PROVE  Acked(k, KeyboardCommand(k, cmd), FALSE, TRUE)
<1>1. ASSUME NEW v \in {"None", "rate", "scanset"}
      PROVE  LET j == [k EXCEPT !.kbd_arg = v] IN j \in Kbds /\ Same(k, j) /\ j.out = k.out
  BY Zenon DEF Kbds, Same
<1>2. Same(k, k)
  BY Zenon DEF Same
<1>3. 1 \in 1 .. 4 /\ 2 \in 1 .. 4 /\ 3 \in 1 .. 4 /\ {TRUE, FALSE} \subseteq BOOLEAN /\ TRUE # FALSE
  OBVIOUS
<1>4. CASE k.kbd_arg # "None"
  <2>1. PICK j : j = [k EXCEPT !.kbd_arg = "None"]
    BY Zenon
  <2>2. PICK n \in 1 .. 4 : n = IF k.kbd_arg = "scanset" /\ cmd = "status" THEN 2 ELSE 1
    BY <1>3, Zenon
  <2>3. KeyboardCommand(k, cmd) = Reply(j, FALSE, n)
    BY <1>4, <2>1, <2>2, Zenon DEF KeyboardCommand
  <2> QED
    BY <1>1, <1>3, <2>1, <2>3, ReplyAcks, Zenon
<1>5. CASE k.kbd_arg = "None"
  <2>1. \/ KeyboardCommand(k, cmd) = Reply(k, FALSE, 2)
        \/ KeyboardCommand(k, cmd) = Reply(k, FALSE, 3)
        \/ KeyboardCommand(k, cmd) = Reply(k, FALSE, 1)
        \/ /\ cmd \in {"rate", "scanset"}
           /\ KeyboardCommand(k, cmd) = Reply([k EXCEPT !.kbd_arg = cmd], FALSE, 1)
    BY <1>5, Zenon DEF KeyboardCommand, Commands
  <2>2. CASE KeyboardCommand(k, cmd) \in {Reply(k, FALSE, 1), Reply(k, FALSE, 2), Reply(k, FALSE, 3)}
    BY <1>2, <1>3, <2>2, ReplyAcks, Zenon
  <2>3. CASE cmd \in {"rate", "scanset"} /\ KeyboardCommand(k, cmd) = Reply([k EXCEPT !.kbd_arg = cmd], FALSE, 1)
    <3>1. cmd \in {"None", "rate", "scanset"}
      BY <2>3, Zenon
    <3> QED
      BY <1>1, <1>3, <2>3, <3>1, ReplyAcks, Zenon
  <2> QED
    BY <2>1, <2>2, <2>3, Zenon
<1> QED
  BY <1>4, <1>5, Zenon

LEMMA MouseAcks ==
  ASSUME NEW k \in Kbds, NEW cmd \in Commands
  PROVE  Acked(k, MouseCommand(k, cmd), TRUE, FALSE)
<1>1. ASSUME NEW v \in BOOLEAN
      PROVE  LET j == [k EXCEPT !.mouse_arg = v] IN j \in Kbds /\ Same(k, j) /\ j.out = k.out
  BY Zenon DEF Kbds, Same
<1>2. ASSUME NEW v \in BOOLEAN
      PROVE  LET j == [k EXCEPT !.reporting = v] IN j \in Kbds /\ Same(k, j) /\ j.out = k.out
  BY Zenon DEF Kbds, Same
<1>3. 1 \in 1 .. 4 /\ 2 \in 1 .. 4 /\ 3 \in 1 .. 4 /\ 4 \in 1 .. 4 /\ {TRUE, FALSE} \subseteq BOOLEAN /\ TRUE # FALSE
  OBVIOUS
<1>4. Same(k, k)
  BY Zenon DEF Same
<1>5. \E j \in Kbds, n \in 1 .. 4 : /\ MouseCommand(k, cmd) = Reply(j, TRUE, n)
                                    /\ Same(k, j) /\ j.out = k.out
  <2>1. CASE k.mouse_arg
    BY <1>1, <1>3, <2>1, Zenon DEF MouseCommand
  <2>2. CASE ~k.mouse_arg /\ cmd = "reset"
    BY <1>2, <1>3, <2>2, Zenon DEF MouseCommand
  <2>3. CASE ~k.mouse_arg /\ cmd = "identify"
    BY <1>4, <1>3, <2>3, Zenon DEF MouseCommand
  <2>4. CASE ~k.mouse_arg /\ cmd = "rate"
    BY <1>1, <1>3, <2>4, Zenon DEF MouseCommand
  <2>5. CASE ~k.mouse_arg /\ cmd = "status"
    BY <1>4, <1>3, <2>5, Zenon DEF MouseCommand
  <2>6. CASE ~k.mouse_arg /\ cmd = "enable"
    BY <1>2, <1>3, <2>6, Zenon DEF MouseCommand
  <2>7. CASE ~k.mouse_arg /\ cmd = "disable"
    BY <1>2, <1>3, <2>7, Zenon DEF MouseCommand
  <2>8. CASE ~k.mouse_arg /\ cmd \in {"plain", "scanset"}
    BY <1>4, <1>3, <2>8, Zenon DEF MouseCommand
  <2> QED
    BY <2>1, <2>2, <2>3, <2>4, <2>5, <2>6, <2>7, <2>8, Zenon DEF Commands
<1> QED
  BY <1>3, <1>5, ReplyAcks, Zenon
(***************************************************************************)
(* Inductive invariant.  The guest's idea of where its next byte goes is   *)
(* the controller's, each clock flag is the copy in the config byte, and   *)
(* what a device owes is what of it waits in out.                          *)
(***************************************************************************)
Clocks(k) == /\ k.kbd_enabled = ("kbd_clk_dis" \notin k.ccb)
             /\ k.aux_enabled = ("aux_clk_dis" \notin k.ccb)
Meant == /\ owed.next = "kbd" <=> kbd.pending = "None"
         /\ owed.next = "aux" <=> kbd.pending = "WriteAux"
Unread == owed.kbd = Count(kbd.out, FALSE) /\ owed.aux = Count(kbd.out, TRUE)
KbdInv == /\ kbd \in Kbds /\ owed \in Owed
          /\ Clocks(kbd) /\ Meant /\ Unread

LEMMA KbdInitInv == KbdInit => KbdInv
<1> SUFFICES ASSUME KbdInit PROVE KbdInv
  BY Zenon
<1>1. <<>> \in Seq(Waiting) /\ {"kbd_int", "aux_clk_dis"} \in SUBSET CcbBits /\ 0 \in Nat
  BY DEF CcbBits
<1>2. kbd \in Kbds /\ owed \in Owed
  BY <1>1, Zenon DEF KbdInit, Kbds, Owed, Pendings
<1>3. kbd.out = <<>> /\ owed.kbd = 0 /\ owed.aux = 0 /\ Meant
  BY Zenon DEF KbdInit, Meant
<1>4. Clocks(kbd)
  BY Zenon DEF KbdInit, Clocks
<1>5. \A a : Acks(<<>>, a) = {}
  BY DEF Acks
<1>6. \A a : Count(<<>>, a) = 0
  BY <1>5, FS_EmptySet, Zenon DEF Count
<1> QED
  BY <1>2, <1>3, <1>4, <1>6, Zenon DEF KbdInv, Unread

\* A step that adds no acknowledgement and leaves the addressee alone.
LEMMA KeepsInv ==
  ASSUME KbdInv, Kept(kbd, kbd'), UNCHANGED owed
  PROVE  KbdInv'
<1>1. Clocks(kbd)' /\ Meant' /\ kbd' \in Kbds /\ owed' \in Owed
  BY Zenon DEF KbdInv, Kept, Same, Clocks, Meant
<1>2. Unread'
  <2>1. Count(kbd'.out, FALSE) = Count(kbd.out, FALSE) /\ Count(kbd'.out, TRUE) = Count(kbd.out, TRUE)
    BY Zenon DEF Kept
  <2> QED
    BY <2>1, Zenon DEF KbdInv, Unread
<1> QED
  BY <1>1, <1>2, Zenon DEF KbdInv

LEMMA ControllerCommandInv ==
  ASSUME KbdInv, ControllerCommand
  PROVE  KbdInv'
<1>1. kbd \in Kbds /\ owed \in Owed /\ Clocks(kbd) /\ Meant /\ Unread
  BY Zenon DEF KbdInv
<1>2. CASE kbd' = Datum(kbd, FALSE) /\ UNCHANGED owed
  BY <1>1, <1>2, DatumKeeps, KeepsInv, Zenon
<1>3. ASSUME NEW port \in {"kbd", "aux"}, NEW on \in BOOLEAN,
             kbd' = EnablePort(kbd, port, on), UNCHANGED owed
      PROVE  KbdInv'
  <2>1. \A bit \in CcbBits : kbd.ccb \ {bit} \in SUBSET CcbBits /\ kbd.ccb \cup {bit} \in SUBSET CcbBits
    BY <1>1, Zenon DEF Kbds
  <2>2. "kbd_clk_dis" \in CcbBits /\ "aux_clk_dis" \in CcbBits /\ "kbd_clk_dis" # "aux_clk_dis"
    BY Zenon DEF CcbBits
  <2>3. CASE port = "aux"
    <3>1. PICK c : c = IF on THEN kbd.ccb \ {"aux_clk_dis"} ELSE kbd.ccb \cup {"aux_clk_dis"}
      BY Zenon
    <3>2. kbd' = [kbd EXCEPT !["aux_enabled"] = on, !.ccb = c]
      BY <1>3, <2>3, <3>1, Zenon DEF EnablePort
    <3>3. c \in SUBSET CcbBits
      BY <2>1, <2>2, <3>1, Zenon
    <3>4. ("kbd_clk_dis" \in c <=> "kbd_clk_dis" \in kbd.ccb) /\ ("aux_clk_dis" \notin c <=> on)
      BY <1>3, <2>2, <3>1
    <3>5. kbd' \in Kbds /\ kbd'.out = kbd.out /\ kbd'.pending = kbd.pending
      BY <1>1, <3>2, <3>3, Zenon DEF Kbds
    <3>6. kbd'.ccb = c /\ kbd'.kbd_enabled = kbd.kbd_enabled /\ kbd'.aux_enabled = on
      BY <1>1, <3>2, Zenon DEF Kbds
    <3>7. kbd.kbd_enabled = ("kbd_clk_dis" \notin kbd.ccb)
      BY <1>1, Zenon DEF Clocks
    <3>8. Clocks(kbd')
      BY <3>4, <3>6, <3>7 DEF Clocks
    <3> QED
      BY <1>1, <1>3, <3>5, <3>8, Zenon DEF KbdInv, Meant, Unread
  <2>4. CASE port = "kbd"
    <3>1. PICK c : c = IF on THEN kbd.ccb \ {"kbd_clk_dis"} ELSE kbd.ccb \cup {"kbd_clk_dis"}
      BY Zenon
    <3>2. kbd' = [kbd EXCEPT !["kbd_enabled"] = on, !.ccb = c]
      BY <1>3, <2>4, <3>1, Zenon DEF EnablePort
    <3>3. c \in SUBSET CcbBits
      BY <2>1, <2>2, <3>1, Zenon
    <3>4. ("aux_clk_dis" \in c <=> "aux_clk_dis" \in kbd.ccb) /\ ("kbd_clk_dis" \notin c <=> on)
      BY <1>3, <2>2, <3>1, Zenon
    <3>5. kbd' \in Kbds /\ kbd'.out = kbd.out /\ kbd'.pending = kbd.pending
      BY <1>1, <3>2, <3>3, Zenon DEF Kbds
    <3>6. kbd'.ccb = c /\ kbd'.aux_enabled = kbd.aux_enabled /\ kbd'.kbd_enabled = on
      BY <1>1, <3>2, Zenon DEF Kbds
    <3>7. kbd.aux_enabled = ("aux_clk_dis" \notin kbd.ccb)
      BY <1>1, Zenon DEF Clocks
    <3>8. Clocks(kbd')
      BY <3>4, <3>6, <3>7, Zenon DEF Clocks
    <3> QED
      BY <1>1, <1>3, <3>5, <3>8, Zenon DEF KbdInv, Meant, Unread
  <2> QED
    BY <2>3, <2>4, Zenon
<1>4. ASSUME NEW p \in {"WriteCcb", "WriteAux", "WriteKbdOut", "WriteAuxOut"},
             kbd' = [kbd EXCEPT !.pending = p],
             owed' = [owed EXCEPT !.next = IF p = "WriteAux" THEN "aux" ELSE "ctrl"]
      PROVE  KbdInv'
  <2>1. p \in Pendings /\ p # "None"
    BY Zenon DEF Pendings
  <2>2. PICK n \in {"kbd", "aux", "ctrl"} : n # "kbd" /\ (n = "aux" <=> p = "WriteAux") /\ owed' = [owed EXCEPT !.next = n]
    BY <1>4, Zenon
  <2>3. /\ kbd' \in Kbds /\ kbd'.pending = p /\ kbd'.out = kbd.out /\ kbd'.ccb = kbd.ccb
        /\ kbd'.kbd_enabled = kbd.kbd_enabled /\ kbd'.aux_enabled = kbd.aux_enabled
    BY <1>1, <1>4, <2>1, Zenon DEF Kbds
  <2>4. owed' \in Owed /\ owed'.next = n /\ owed'.kbd = owed.kbd /\ owed'.aux = owed.aux
    BY <1>1, <2>2, Zenon DEF Owed
  <2> QED
    BY <1>1, <2>1, <2>2, <2>3, <2>4, Zenon DEF KbdInv, Clocks, Meant, Unread
<1> QED
  BY <1>2, <1>3, <1>4, Zenon DEF ControllerCommand

LEMMA DataWriteInv ==
  ASSUME KbdInv, NEW cmd \in Commands, NEW ccb \in SUBSET CcbBits, DataWrite(cmd, ccb)
  PROVE  KbdInv'
<1>1. kbd \in Kbds /\ owed \in Owed /\ Clocks(kbd) /\ Meant /\ Unread
  BY Zenon DEF KbdInv
<1>2. PICK k : k = NoMorePending(kbd)
  BY Zenon
<1>3. /\ k \in Kbds /\ k.pending = "None" /\ k.out = kbd.out /\ k.ccb = kbd.ccb
      /\ k.kbd_enabled = kbd.kbd_enabled /\ k.aux_enabled = kbd.aux_enabled
  BY <1>1, <1>2, Zenon DEF NoMorePending, Kbds, Pendings
<1>4. kbd.pending \in Pendings
  BY <1>1, Zenon DEF Kbds
<1>5. PICK n, m : /\ owed' = [next |-> "kbd", kbd |-> n, aux |-> m]
                  /\ n = IF owed.next = "kbd" THEN owed.kbd + 1 ELSE owed.kbd
                  /\ m = IF owed.next = "aux" THEN owed.aux + 1 ELSE owed.aux
  BY Zenon DEF DataWrite
<1>6. owed.kbd \in Nat /\ owed.aux \in Nat
  BY <1>1, Zenon DEF Owed
<1>7. n \in Nat /\ m \in Nat
  BY <1>5, <1>6
<1>8. owed' \in Owed /\ owed'.next = "kbd" /\ owed'.kbd = n /\ owed'.aux = m
  BY <1>5, <1>7, Zenon DEF Owed
<1>9. /\ Count(k.out, FALSE) = owed.kbd /\ Count(k.out, TRUE) = owed.aux
  BY <1>1, <1>3, Zenon DEF Unread
<1>10. ASSUME kbd' \in Kbds, kbd'.pending = "None", Clocks(kbd'),
              n = Count(kbd'.out, FALSE), m = Count(kbd'.out, TRUE)
       PROVE  KbdInv'
  BY <1>8, <1>10, Zenon DEF KbdInv, Meant, Unread
<1>11. ASSUME NEW j, Same(k, j) PROVE j \in Kbds /\ j.pending = "None" /\ Clocks(j)
  BY <1>1, <1>3, <1>11, Zenon DEF Same, Clocks
<1>12. CASE kbd.pending = "WriteCcb"
  <2>1. kbd' = WriteCcb(k, ccb)
    BY <1>2, <1>12, Zenon DEF DataWrite
  <2>2. n = owed.kbd /\ m = owed.aux
    BY <1>1, <1>5, <1>12, Zenon DEF Meant
  <2>3. ("kbd_clk_dis" \notin ccb) \in BOOLEAN /\ ("aux_clk_dis" \notin ccb) \in BOOLEAN
    BY Zenon
  <2>4. PICK a \in BOOLEAN, b \in BOOLEAN :
          a = ("kbd_clk_dis" \notin ccb) /\ b = ("aux_clk_dis" \notin ccb)
    BY <2>3, Zenon
  <2>5. kbd' = [k EXCEPT !.ccb = ccb, !.kbd_enabled = a, !.aux_enabled = b]
    BY <2>1, <2>4, Zenon DEF WriteCcb
  <2>6. kbd' \in Kbds /\ kbd'.pending = "None" /\ kbd'.out = k.out
    BY <1>3, <2>5, Zenon DEF Kbds
  <2>7. kbd'.ccb = ccb /\ kbd'.kbd_enabled = a /\ kbd'.aux_enabled = b
    BY <1>3, <2>5, Zenon DEF Kbds
  <2>8. Clocks(kbd')
    BY <2>4, <2>7, Zenon DEF Clocks
  <2> QED
    BY <1>9, <1>10, <2>2, <2>6, <2>8, Zenon
<1>13. CASE kbd.pending = "WriteAux"
  <2>1. kbd' = MouseCommand(k, cmd)
    BY <1>2, <1>13, Zenon DEF DataWrite
  <2>2. n = owed.kbd /\ m = owed.aux + 1
    BY <1>1, <1>5, <1>13, Zenon DEF Meant
  <2>3. Acked(k, kbd', TRUE, FALSE)
    BY <1>3, <2>1, MouseAcks, Zenon
  <2>4. Same(k, kbd') /\ Count(kbd'.out, TRUE) = Count(k.out, TRUE) + 1 /\ Count(kbd'.out, FALSE) = Count(k.out, FALSE)
    BY <2>3, Zenon DEF Acked
  <2> QED
    BY <1>9, <1>10, <1>11, <2>2, <2>4, Zenon
<1>14. CASE kbd.pending \in {"WriteKbdOut", "WriteAuxOut"}
  <2>1. PICK a \in BOOLEAN : kbd' = Datum(k, a)
    BY <1>2, <1>14, Zenon DEF DataWrite
  <2>2. n = owed.kbd /\ m = owed.aux
    BY <1>1, <1>5, <1>14, Zenon DEF Meant
  <2>3. Kept(k, kbd')
    BY <1>3, <2>1, DatumKeeps, Zenon
  <2>4. Same(k, kbd') /\ Count(kbd'.out, TRUE) = Count(k.out, TRUE) /\ Count(kbd'.out, FALSE) = Count(k.out, FALSE)
    BY <2>3, Zenon DEF Kept
  <2> QED
    BY <1>9, <1>10, <1>11, <2>2, <2>4, Zenon
<1>15. CASE kbd.pending = "None"
  <2>1. kbd' = KeyboardCommand(k, cmd)
    BY <1>2, <1>15, Zenon DEF DataWrite
  <2>2. n = owed.kbd + 1 /\ m = owed.aux
    BY <1>1, <1>5, <1>15, Zenon DEF Meant
  <2>3. Acked(k, kbd', FALSE, TRUE)
    BY <1>3, <2>1, KeyboardAcks, Zenon
  <2>4. Same(k, kbd') /\ Count(kbd'.out, FALSE) = Count(k.out, FALSE) + 1 /\ Count(kbd'.out, TRUE) = Count(k.out, TRUE)
    BY <2>3, Zenon DEF Acked
  <2> QED
    BY <1>9, <1>10, <1>11, <2>2, <2>4, Zenon
<1> QED
  BY <1>4, <1>12, <1>13, <1>14, <1>15, Zenon DEF Pendings

LEMMA QueueInv ==
  ASSUME KbdInv, NEW n \in Nat, kbd' = [kbd EXCEPT !.queue = n], UNCHANGED owed
  PROVE  KbdInv'
<1>1. Same(kbd, kbd') /\ kbd'.out = kbd.out
  BY Zenon DEF KbdInv, Kbds, Same
<1> QED
  BY <1>1, KeepsInv, Zenon DEF Kept

LEMMA DataReadInv ==
  ASSUME KbdInv, DataRead
  PROVE  KbdInv'
<1>1. kbd \in Kbds /\ owed \in Owed /\ Clocks(kbd) /\ Meant /\ Unread
  BY Zenon DEF KbdInv
<1>2. kbd.out \in Seq(Waiting) /\ kbd.queue \in Nat
  BY <1>1, Zenon DEF Kbds
<1>3. CASE kbd.out = <<>>
  <2>1. kbd.queue - 1 \in Nat /\ kbd' = [kbd EXCEPT !.queue = @ - 1] /\ UNCHANGED owed
    BY <1>2, <1>3 DEF DataRead
  <2> QED
    BY <2>1, QueueInv, Zenon
<1>4. CASE kbd.out # <<>>
  <2>1. PICK b, s : b = Head(kbd.out) /\ s = Tail(kbd.out)
    BY Zenon
  <2>2. /\ s \in Seq(Waiting) /\ b \in Waiting
        /\ \A a : Count(s, a) = IF b.ack /\ b.aux = a THEN Count(kbd.out, a) - 1 ELSE Count(kbd.out, a)
    BY <1>2, <1>4, <2>1, CountTail, Zenon
  <2>3. kbd' = [kbd EXCEPT !.out = s]
    BY <1>4, <2>1, Zenon DEF DataRead
  <2>4. Same(kbd, kbd') /\ kbd'.out = s
    BY <1>1, <2>2, <2>3, OutPut, Zenon
  <2>5. kbd' \in Kbds /\ Clocks(kbd') /\ kbd'.pending = kbd.pending
    BY <1>1, <2>4, Zenon DEF Same, Clocks
  <2>6. \A a : Count(s, a) \in Nat
    BY <2>2, AcksFinite, Zenon
  <2>7. b.ack \in BOOLEAN /\ b.aux \in BOOLEAN
    BY <2>2, Zenon DEF Waiting
  <2>8. owed' = IF ~b.ack THEN owed
                ELSE IF b.aux THEN [owed EXCEPT !.aux = @ - 1]
                ELSE [owed EXCEPT !.kbd = @ - 1]
    BY <1>4, <2>1, Zenon DEF DataRead
  <2>9. owed.kbd = Count(kbd.out, FALSE) /\ owed.aux = Count(kbd.out, TRUE)
    BY <1>1, Zenon DEF Unread
  <2>10. CASE ~b.ack
    <3>1. Count(s, FALSE) = Count(kbd.out, FALSE) /\ Count(s, TRUE) = Count(kbd.out, TRUE)
      BY <2>2, <2>10, Zenon
    <3>2. owed' = owed
      BY <2>8, <2>10, Zenon
    <3> QED
      BY <1>1, <2>4, <2>5, <2>9, <3>1, <3>2, Zenon DEF KbdInv, Meant, Unread
  <2>11. CASE b.ack /\ b.aux
    <3>1. Count(s, FALSE) = Count(kbd.out, FALSE) /\ Count(s, TRUE) = Count(kbd.out, TRUE) - 1
      BY <2>2, <2>7, <2>11, Zenon
    <3>2. owed' = [owed EXCEPT !.aux = Count(s, TRUE)]
      BY <2>8, <2>9, <2>11, <3>1, Zenon
    <3>3. owed' \in Owed /\ owed'.next = owed.next /\ owed'.kbd = owed.kbd /\ owed'.aux = Count(s, TRUE)
      BY <1>1, <2>6, <3>2, Zenon DEF Owed
    <3> QED
      BY <1>1, <2>4, <2>5, <2>9, <3>1, <3>3, Zenon DEF KbdInv, Meant, Unread
  <2>12. CASE b.ack /\ ~b.aux
    <3>1. Count(s, TRUE) = Count(kbd.out, TRUE) /\ Count(s, FALSE) = Count(kbd.out, FALSE) - 1
      BY <2>2, <2>7, <2>12, Zenon
    <3>2. owed' = [owed EXCEPT !.kbd = Count(s, FALSE)]
      BY <2>8, <2>9, <2>12, <3>1, Zenon
    <3>3. owed' \in Owed /\ owed'.next = owed.next /\ owed'.aux = owed.aux /\ owed'.kbd = Count(s, FALSE)
      BY <1>1, <2>6, <3>2, Zenon DEF Owed
    <3> QED
      BY <1>1, <2>4, <2>5, <2>9, <3>1, <3>3, Zenon DEF KbdInv, Meant, Unread
  <2> QED
    BY <2>7, <2>10, <2>11, <2>12, Zenon
<1> QED
  BY <1>3, <1>4, Zenon

LEMMA PacketInv ==
  ASSUME KbdInv, PushMousePacket
  PROVE  KbdInv'
<1>1. kbd \in Kbds /\ UNCHANGED owed
  BY Zenon DEF KbdInv, PushMousePacket
<1>2. PICK i, j, k : i = Datum(kbd, TRUE) /\ j = Datum(i, TRUE) /\ k = Datum(j, TRUE) /\ kbd' = k
  BY Zenon DEF PushMousePacket
<1>3. Kept(kbd, i) /\ i \in Kbds
  BY <1>1, <1>2, DatumKeeps, Zenon DEF Kept, Same
<1>4. Kept(i, j) /\ j \in Kbds
  BY <1>2, <1>3, DatumKeeps, Zenon DEF Kept, Same
<1>5. Kept(j, k)
  BY <1>2, <1>4, DatumKeeps, Zenon
<1>6. Kept(kbd, k)
  BY <1>3, <1>4, <1>5, Zenon DEF Kept, Same
<1> QED
  BY <1>1, <1>2, <1>6, KeepsInv, Zenon

LEMMA KbdNextInv == KbdInv /\ [KbdNext]_kbdVars => KbdInv'
<1> SUFFICES ASSUME KbdInv, [KbdNext]_kbdVars PROVE KbdInv'
  BY Zenon
<1>1. kbd.queue \in Nat
  BY Zenon DEF KbdInv, Kbds
<1>2. CASE PushScancode
  <2>1. kbd.queue + 1 \in Nat
    BY <1>1
  <2> QED
    BY <1>2, <2>1, QueueInv, Zenon DEF PushScancode
<1>3. CASE PopScancode
  <2>1. kbd.queue - 1 \in Nat
    BY <1>1, <1>3 DEF PopScancode
  <2> QED
    BY <1>3, <2>1, QueueInv, Zenon DEF PopScancode
<1>4. CASE UNCHANGED kbdVars
  BY <1>4, Zenon DEF kbdVars, KbdInv, Clocks, Meant, Unread
<1> QED
  BY <1>2, <1>3, <1>4, DataReadInv, ControllerCommandInv, DataWriteInv, PacketInv, Zenon DEF KbdNext

\* WaitingByteSignalled: no sequence of controller commands, written config
\* bytes (execute_controller, write_data), packets and reads leaves the clock
\* flags apart from the config byte, so a byte that waits raises its line.
THEOREM BytesSignalled == KbdSpec => []WaitingByteSignalled
<1>1. KbdInv => WaitingByteSignalled
  <2> SUFFICES ASSUME KbdInv, kbd.ccb = {"kbd_int", "aux_int"} PROVE WaitingByteSignalled
    BY Zenon DEF WaitingByteSignalled
  <2>1. "kbd_int" \in kbd.ccb /\ "aux_int" \in kbd.ccb /\ "kbd_clk_dis" \notin kbd.ccb /\ "aux_clk_dis" \notin kbd.ccb
    BY Zenon
  <2>2. kbd.kbd_enabled /\ kbd.aux_enabled
    BY <2>1, Zenon DEF KbdInv, Clocks
  <2> QED
    BY <2>1, <2>2, Zenon DEF WaitingByteSignalled, Obf, Irq1, Irq12, HeadIsAux, HeadIsKbd
<1> QED
  BY KbdInitInv, KbdNextInv, <1>1, PTL DEF KbdSpec

\* AcknowledgedByAddressee: whatever commands, parameters and packets come
\* between, a byte written to the data port (write_data) is acknowledged once, by
\* the device it was sent to.
THEOREM BytesAcknowledged == KbdSpec => []AcknowledgedByAddressee
<1>1. KbdInv => AcknowledgedByAddressee
  BY Zenon DEF KbdInv, Unread, Count, AcknowledgedByAddressee
<1> QED
  BY KbdInitInv, KbdNextInv, <1>1, PTL DEF KbdSpec
=============================================================================
