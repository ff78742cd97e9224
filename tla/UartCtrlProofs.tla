--------------------------- MODULE UartCtrlProofs ---------------------------
(***************************************************************************)
(* Theorems of UartCtrl for any number of registers, of tries and of       *)
(* answers under way, and for any countdowns: its types, that a read which *)
(* follows an answered one never gives an old answer, and that with three  *)
(* tries or more it survives one thing that goes wrong.                    *)
(***************************************************************************)
EXTENDS UartCtrl, TLAPS

Calls == [at : {"idle", "write", "clear", "wait", "take"}, reg : 1..Registers,
          try : 0..Tries, left : 0..SendCountdown, after : BOOLEAN]

Readers == [at : {"out", "in", "set", "copy"}, left : 0..RxCountdown,
            chunk : Answers]

\* The caller may be given what is in mData; rx_task holds an answer.
Got == call.at \in {"wait", "take"} /\ full /\ rx.at # "copy"
Has == rx.at \in {"set", "copy"}

\* What was asked in this read is of its register, or damaged; what was asked
\* in an earlier one is not, when that read was answered.
OfRead(a) == a.try # 0 => a.reg \in {0, call.reg}
OfAnother(a) == a.try = 0 => a.reg # call.reg

\* Nothing old is behind an answer of this read, from the line to mData.
LineFresh(i) == \A j \in i..Len(line) : line[j].try # 0
RingFresh(i) == LineFresh(1) /\ \A j \in i..Len(ring) : ring[j].try # 0
HeldFresh == Has => rx.chunk.try # 0

OfThisRead ==
  /\ \A i \in 1..Len(line) : OfRead(line[i])
  /\ \A i \in 1..Len(ring) : OfRead(ring[i])
  /\ OfRead(rx.chunk) /\ OfRead(data)

OldOfAnother ==
  call.at # "idle" /\ ~call.after =>
    /\ \A i \in 1..Len(line) : OfAnother(line[i])
    /\ \A i \in 1..Len(ring) : OfAnother(ring[i])
    /\ Has => OfAnother(rx.chunk)
    /\ Got => OfAnother(data)

Ordered ==
  /\ \A i \in 1..Len(line) : line[i].try # 0 => LineFresh(i)
  /\ \A i \in 1..Len(ring) : ring[i].try # 0 => RingFresh(i)
  /\ Has /\ rx.chunk.try # 0 => RingFresh(1)
  /\ Got /\ data.try # 0 => RingFresh(1) /\ HeldFresh
  /\ call.at = "idle" /\ result = "ok" => RingFresh(1) /\ HeldFresh

Ended ==
  /\ call.at = "idle" /\ result = "none" => line = <<>> /\ ring = <<>> /\ ~Has
  /\ result # "none" => call.at = "idle"
  /\ rx.at = "copy" => data.reg = 0
  /\ call.at # "idle" => call.try # 0

FreshInv == OfThisRead /\ OldOfAnother /\ Ordered /\ Ended /\ AnswerIsFresh

LEMMA OldTyped ==
  ASSUME NEW s \in Seq(Answers)
  PROVE  /\ Old(s) \in Seq(Answers) /\ Len(Old(s)) = Len(s) /\ DOMAIN Old(s) = DOMAIN s
         /\ \A i \in DOMAIN s : Old(s)[i].try = 0 /\ Old(s)[i].reg = s[i].reg
<1> USE UartAssumption
<1>1. \A i \in 1..Len(s) : s[i] \in Answers
  OBVIOUS
<1>2. \A i \in 1..Len(s) : [s[i] EXCEPT !.try = 0] \in Answers
  <2> TAKE i \in 1..Len(s)
  <2>1. s[i] \in Answers
    BY <1>1
  <2>2. [s[i] EXCEPT !.try = 0] = [reg |-> s[i].reg, try |-> 0]
    BY <2>1 DEF Answers
  <2> QED
    BY <2>1, <2>2 DEF Answers
<1>3. Old(s) = [i \in 1..Len(s) |-> [s[i] EXCEPT !.try = 0]]
  BY DEF Old
<1>4. Old(s) \in Seq(Answers) /\ Len(Old(s)) = Len(s) /\ DOMAIN Old(s) = DOMAIN s
  BY <1>2, <1>3
<1>5. \A i \in DOMAIN s : Old(s)[i].try = 0 /\ Old(s)[i].reg = s[i].reg
  BY <1>1, <1>3 DEF Answers
<1> QED
  BY <1>4, <1>5

-----------------------------------------------------------------------------
\* Every reachable state has its types, and rx_task is waited for exactly while
\* a request waits for its answer.
THEOREM TypeInvariant == Spec => []TypeOK
<1> USE UartAssumption
<1>1. Init => TypeOK
  <2> SUFFICES ASSUME Init PROVE TypeOK
    OBVIOUS
  <2>1. call \in Calls
    BY DEF Init, Calls
  <2>2. rx \in Readers /\ data \in Answers
    BY DEF Init, Readers, Answers, Garbage
  <2>3. isWaiting = FALSE /\ full = FALSE /\ call.at = "idle" /\ trouble = 0
    BY DEF Init
  <2>4. line \in Seq(Answers) /\ ring \in Seq(Answers) /\ result = "none"
    BY DEF Init
  <2>5. isWaiting \in BOOLEAN /\ full \in BOOLEAN /\ (isWaiting <=> call.at = "wait")
    BY <2>3, Zenon
  <2> QED
    BY <2>1, <2>2, <2>3, <2>4, <2>5 DEF TypeOK, Calls, Readers
<1>2. TypeOK /\ [Next]_vars => TypeOK'
  <2> SUFFICES ASSUME TypeOK, [Next]_vars
               PROVE  TypeOK'
    OBVIOUS
  <2> USE DEF shared, wire
  <2>0. /\ call \in Calls /\ rx \in Readers /\ data \in Answers /\ trouble \in 0..2
        /\ line \in Seq(Answers) /\ ring \in Seq(Answers)
        /\ Garbage \in Answers
    BY DEF TypeOK, Calls, Readers, Answers, Garbage
  <2>1. CASE Read
    <3>1. /\ call' = [at |-> "write", reg |-> (call.reg % Registers) + 1, try |-> 1,
                      left |-> call.left, after |-> result \in {"failed", "stale"}]
      BY <2>0, <2>1 DEF Read, Calls
    <3>2. call' \in Calls
      BY <2>0, <3>1 DEF Calls
    <3>3. line' \in Seq(Answers) /\ ring' \in Seq(Answers)
      BY <2>0, <2>1, OldTyped DEF Read
    <3>4. rx' \in Readers /\ data' \in Answers
      <4>1. /\ data' = [reg |-> data.reg, try |-> 0]
            /\ rx' = [at |-> rx.at, left |-> rx.left,
                      chunk |-> [reg |-> rx.chunk.reg, try |-> 0]]
        BY <2>0, <2>1 DEF Read, Readers, Answers
      <4> QED
        BY <2>0, <4>1 DEF Readers, Answers
    <3>5. trouble' \in 0..2
      <4>1. Len(line) \in Nat /\ Len(ring) \in Nat
        BY <2>0
      <4> QED
        BY <4>1, <2>1 DEF Read
    <3> QED
      BY <2>1, <3>1, <3>2, <3>3, <3>4, <3>5 DEF Read, TypeOK, Calls, Readers
  <2>2. CASE Write
    <3>1. call' \in Calls /\ call'.at = "clear" /\ call.at = "write"
      BY <2>0, <2>2 DEF Write, Calls
    <3>2. [reg |-> call.reg, try |-> call.try] \in Answers
      BY <2>0 DEF Calls, Answers
    <3>3. line' \in Seq(Answers) /\ trouble' \in 0..2
      <4>1. CASE Len(line) + Len(ring) < MaxPending
        BY <2>0, <2>2, <3>2, <4>1 DEF Write
      <4>2. CASE ~(Len(line) + Len(ring) < MaxPending)
        BY <2>0, <2>2, <4>2 DEF Write, Troubles
      <4> QED
        BY <4>1, <4>2
    <3> QED
      BY <2>0, <2>2, <3>1, <3>3 DEF Write, TypeOK, Calls, Readers
  <2>3. CASE Clear
    <3>1. call' \in Calls /\ call'.at = "wait"
      <4>1. call' = [at |-> "wait", reg |-> call.reg, try |-> call.try,
                     left |-> SendCountdown, after |-> call.after]
        BY <2>0, <2>3 DEF Clear, Calls
      <4> QED
        BY <2>0, <4>1 DEF Calls
    <3>2. trouble' \in 0..2
      BY <2>0, <2>3 DEF Clear, Troubles
    <3>3. full' \in BOOLEAN /\ isWaiting'
      BY <2>3 DEF Clear
    <3> QED
      BY <2>0, <2>3, <3>1, <3>2, <3>3 DEF Clear, TypeOK, Calls, Readers
  <2>4. CASE WaitHalfSecond
    <3>1. call' \in Calls /\ call'.at = "wait" /\ call.at = "wait"
      BY <2>0, <2>4 DEF WaitHalfSecond, Calls
    <3> QED
      BY <2>0, <2>4, <3>1 DEF WaitHalfSecond, TypeOK, Calls, Readers
  <2>5. CASE Waited
    <3>1. call' \in Calls /\ call'.at = "take"
      <4>1. call' = [at |-> "take", reg |-> call.reg, try |-> call.try,
                     left |-> 0, after |-> call.after]
        BY <2>0, <2>5 DEF Waited, Calls
      <4> QED
        BY <2>0, <4>1 DEF Calls
    <3>2. trouble' \in 0..2
      BY <2>0, <2>5 DEF Waited, Troubles
    <3>3. isWaiting' = FALSE
      BY <2>5 DEF Waited
    <3> QED
      BY <2>0, <2>5, <3>1, <3>2, <3>3 DEF Waited, TypeOK, Calls, Readers
  <2>6. CASE Accept
    <3>1. call' \in Calls /\ call'.at = "idle" /\ call.at = "take"
      BY <2>0, <2>6 DEF Accept, Calls
    <3>2. result' \in {"ok", "stale"}
      BY <2>6 DEF Accept
    <3> QED
      BY <2>0, <2>6, <3>1, <3>2 DEF Accept, TypeOK, Calls, Readers
  <2>7. CASE Reject
    <3>1. call' \in Calls /\ call'.at \in {"write", "idle"} /\ call.at = "take"
      <4>1. CASE call.try < Tries
        <5>1. call' = [at |-> "write", reg |-> call.reg, try |-> call.try + 1,
                       left |-> call.left, after |-> call.after]
          BY <2>0, <2>7, <4>1 DEF Reject, Calls
        <5> QED
          BY <2>0, <2>7, <4>1, <5>1 DEF Reject, Calls
      <4>2. CASE ~(call.try < Tries)
        BY <2>0, <2>7, <4>2 DEF Reject, Calls
      <4> QED
        BY <4>1, <4>2
    <3>2. trouble' \in 0..2 /\ result' \in {result, "failed"}
      BY <2>0, <2>7 DEF Reject, Troubles
    <3> QED
      BY <2>0, <2>7, <3>1, <3>2 DEF Reject, TypeOK, Calls, Readers
  <2>8. CASE StartReading
    <3>1. rx' \in Readers
      <4>1. rx' = [at |-> "in", left |-> RxCountdown, chunk |-> rx.chunk]
        BY <2>0, <2>8 DEF StartReading, Readers
      <4> QED
        BY <2>0, <4>1 DEF Readers
    <3> QED
      BY <2>0, <2>8, <3>1 DEF StartReading, TypeOK, Calls, Readers
  <2>9. CASE ReadBytes
    <3>1. Len(ring) \in Nat \ {0} /\ Head(ring) \in Answers /\ ring[Len(ring)] \in Answers
      BY <2>0, <2>9 DEF ReadBytes
    <3>2. rx' \in Readers
      <4> DEFINE got == IF Len(ring) = 1 THEN Head(ring)
                        ELSE [reg |-> 0, try |-> ring[Len(ring)].try]
      <4>1. rx' = [at |-> "set", left |-> rx.left, chunk |-> got]
        BY <2>0, <2>9 DEF ReadBytes, Readers
      <4>2. got \in Answers
        BY <3>1 DEF Answers
      <4> QED
        BY <2>0, <4>1, <4>2 DEF Readers
    <3>3. trouble' \in 0..2
      BY <2>0, <2>9, <3>1 DEF ReadBytes, Troubles
    <3> QED
      BY <2>0, <2>9, <3>2, <3>3 DEF ReadBytes, TypeOK, Calls, Readers
  <2>10. CASE ReadPart
    <3>1. ring[1] \in Answers
      <4>1. Len(ring) = 1
        BY <2>10 DEF ReadPart
      <4>2. \A i \in 1..Len(ring) : ring[i] \in Answers
        BY <2>0
      <4> QED
        BY <4>1, <4>2
    <3>2. rx' \in Readers /\ ring' \in Seq(Answers)
      <4> DEFINE part == [reg |-> 0, try |-> ring[1].try]
      <4>1. part \in Answers /\ [ring[1] EXCEPT !.reg = 0] = part
        BY <3>1 DEF Answers
      <4>2. rx' = [at |-> "set", left |-> rx.left, chunk |-> part] /\ ring' = <<part>>
        BY <2>0, <2>10, <4>1 DEF ReadPart, Readers
      <4> QED
        BY <2>0, <4>1, <4>2 DEF Readers
    <3>3. trouble' \in 0..2
      BY <2>0, <2>10 DEF ReadPart, Troubles
    <3> QED
      BY <2>0, <2>10, <3>2, <3>3 DEF ReadPart, TypeOK, Calls, Readers
  <2>11. CASE ReadNothing
    <3>1. rx' \in Readers
      <4>1. CASE rx.left > 1
        <5>1. rx' = [at |-> rx.at, left |-> rx.left - 1, chunk |-> rx.chunk]
          BY <2>0, <2>11, <4>1 DEF ReadNothing, Readers
        <5> QED
          BY <2>0, <4>1, <5>1 DEF Readers
      <4>2. CASE ~(rx.left > 1)
        <5>1. rx' = [at |-> "out", left |-> 0, chunk |-> rx.chunk]
          BY <2>0, <2>11, <4>2 DEF ReadNothing, Readers
        <5> QED
          BY <2>0, <5>1 DEF Readers
      <4> QED
        BY <4>1, <4>2
    <3> QED
      BY <2>0, <2>11, <3>1 DEF ReadNothing, TypeOK, Calls, Readers
  <2>12. CASE SetLength
    <3>1. rx' \in Readers /\ full' \in BOOLEAN
      BY <2>0, <2>12 DEF SetLength, Readers
    <3> QED
      BY <2>0, <2>12, <3>1 DEF SetLength, TypeOK, Calls, Readers
  <2>13. CASE CopyBytes
    <3>1. rx' \in Readers /\ data' \in Answers
      BY <2>0, <2>13 DEF CopyBytes, Readers
    <3> QED
      BY <2>0, <2>13, <3>1 DEF CopyBytes, TypeOK, Calls, Readers
  <2>14. CASE Answer
    <3>1. Head(line) \in Answers /\ line' \in Seq(Answers) /\ ring' \in Seq(Answers)
      BY <2>0, <2>14 DEF Answer
    <3> QED
      BY <2>0, <2>14, <3>1 DEF Answer, TypeOK, Calls, Readers
  <2>15. CASE Lose
    <3>1. line' \in Seq(Answers) /\ trouble' \in 0..2
      BY <2>0, <2>15 DEF Lose, Troubles
    <3> QED
      BY <2>0, <2>15, <3>1 DEF Lose, TypeOK, Calls, Readers
  <2>16. CASE UNCHANGED vars
    BY <2>16 DEF vars, TypeOK
  <2> QED
    BY <2>1, <2>2, <2>3, <2>4, <2>5, <2>6, <2>7, <2>8, <2>9, <2>10, <2>11, <2>12,
       <2>13, <2>14, <2>15, <2>16 DEF Next, ReadTask, RxTask
<1> QED
  BY <1>1, <1>2, PTL DEF Spec

-----------------------------------------------------------------------------
\* What is old in the line, the driver and rx_task is of the register before,
\* and is in front of what is new.
LEMMA FreshInvariant == Spec => [](TypeOK /\ FreshInv)
<1> USE UartAssumption
<1>1. Init => FreshInv
  <2> SUFFICES ASSUME Init PROVE FreshInv
    OBVIOUS
  <2>1. /\ line = <<>> /\ ring = <<>> /\ rx.at = "out" /\ rx.chunk = Garbage
        /\ data = Garbage /\ call.at = "idle" /\ result = "none"
    BY DEF Init
  <2>2. Len(line) = 0 /\ Len(ring) = 0
    BY <2>1
  <2>3. OfThisRead /\ Ordered
    BY <2>1, <2>2 DEF OfThisRead, OfRead, Ordered, Has, Got, Garbage
  <2> QED
    BY <2>1, <2>3 DEF FreshInv, OldOfAnother, Ended, Has, AnswerIsFresh
<1>2. TypeOK /\ FreshInv /\ [Next]_vars => FreshInv'
  <2> SUFFICES ASSUME TypeOK, FreshInv, [Next]_vars
               PROVE  FreshInv'
    OBVIOUS
  <2> USE DEF shared, wire
  <2>t. /\ call \in Calls /\ rx \in Readers /\ data \in Answers
        /\ line \in Seq(Answers) /\ ring \in Seq(Answers)
    BY DEF TypeOK, Calls, Readers
  <2>0. /\ call \in Calls /\ rx \in Readers /\ data \in Answers
        /\ line \in Seq(Answers) /\ ring \in Seq(Answers)
        /\ \A i \in 1..Len(line) : line[i] \in Answers
        /\ \A i \in 1..Len(ring) : ring[i] \in Answers
        /\ Len(line) \in Nat /\ Len(ring) \in Nat
    BY <2>t
  <2>a. OfThisRead /\ OldOfAnother /\ Ordered /\ Ended /\ AnswerIsFresh
    BY DEF FreshInv
  <2>1. CASE Read
    <3>1. /\ call'.at = "write" /\ call'.reg = (call.reg % Registers) + 1
          /\ call'.after = (result \in {"failed", "stale"}) /\ call.at = "idle"
          /\ call'.try = 1
          /\ rx'.at = rx.at /\ rx'.chunk.reg = rx.chunk.reg /\ rx'.chunk.try = 0
          /\ data'.reg = data.reg /\ data'.try = 0
          /\ line' = Old(line) /\ ring' = Old(ring) /\ result' = "none"
      BY <2>0, <2>1 DEF Read, Calls, Readers, Answers
    <3>2. call'.reg # call.reg /\ call'.reg # 0
      <4>1. call.reg \in 1..Registers /\ Registers \in Nat /\ Registers > 1
        BY <2>0 DEF Calls
      <4>2. CASE call.reg = Registers
        BY <3>1, <4>1, <4>2
      <4>3. CASE call.reg < Registers
        <5>1. call.reg % Registers = call.reg
          BY <4>1, <4>3
        <5> QED
          BY <3>1, <4>1, <5>1
      <4> QED
        BY <4>1, <4>2, <4>3
    <3>3. /\ Len(line') = Len(line) /\ Len(ring') = Len(ring)
          /\ \A i \in 1..Len(line) : line'[i].try = 0 /\ line'[i].reg = line[i].reg
          /\ \A i \in 1..Len(ring) : ring'[i].try = 0 /\ ring'[i].reg = ring[i].reg
      BY <2>0, <3>1, OldTyped
    <3>4. OfThisRead'
      BY <3>1, <3>3 DEF OfThisRead, OfRead
    <3>5. Ordered'
      BY <3>1, <3>3 DEF Ordered, Has, Got
    <3>6. OldOfAnother'
      <4>1. SUFFICES ASSUME ~call'.after
                     PROVE  /\ \A i \in 1..Len(line) : line[i].reg # call'.reg
                            /\ \A i \in 1..Len(ring) : ring[i].reg # call'.reg
                            /\ Has => rx.chunk.reg # call'.reg
        BY <3>1, <3>3 DEF OldOfAnother, OfAnother, Has, Got
      <4>2. result \in {"none", "ok"}
        BY <3>1, <4>1 DEF TypeOK
      <4>3. CASE result = "none"
        BY <2>a, <3>1, <4>3 DEF Ended
      <4>4. CASE result = "ok"
        <5>1. RingFresh(1) /\ HeldFresh
          BY <2>a, <3>1, <4>4 DEF Ordered
        <5> QED
          BY <2>a, <3>2, <5>1 DEF RingFresh, LineFresh, HeldFresh, OfThisRead, OfRead
      <4> QED
        BY <4>2, <4>3, <4>4
    <3> QED
      BY <2>a, <3>1, <3>4, <3>5, <3>6 DEF FreshInv, Ended, Has, AnswerIsFresh
  <2>2. CASE Write
    <3>1. /\ call.at = "write" /\ call'.at = "clear" /\ call'.reg = call.reg
          /\ call'.after = call.after /\ result' = result /\ call.try = call'.try
          /\ data' = data /\ full' = full /\ rx' = rx /\ ring' = ring
      BY <2>0, <2>2 DEF Write, Calls
    <3>2. CASE line' = line
      BY <2>a, <3>1, <3>2 DEF FreshInv, OfThisRead, OfRead, OldOfAnother, OfAnother, Ordered,
         LineFresh, RingFresh, HeldFresh, Has, Got, Ended, AnswerIsFresh
    <3>3. CASE line' = Append(line, [reg |-> call.reg, try |-> call.try]) /\ call.try # 0
      <4>1. /\ Len(line') = Len(line) + 1
            /\ \A i \in 1..Len(line) : line'[i] = line[i]
            /\ line'[Len(line) + 1].reg = call.reg /\ line'[Len(line) + 1].try # 0
        BY <2>0, <3>3
      <4>2. \A i \in 1..Len(line') : i \in 1..Len(line) \/ i = Len(line) + 1
        BY <2>0, <4>1
      <4>3. \A i \in 1..(Len(line) + 1) : LineFresh(i) => LineFresh(i)'
        BY <2>0, <4>1, <4>2 DEF LineFresh
      <4>4. \A i \in {Len(line) + 1} : LineFresh(i)'
        BY <2>0, <4>1 DEF LineFresh
      <4>5. OfThisRead'
        BY <2>a, <3>1, <4>1, <4>2 DEF OfThisRead, OfRead
      <4>6. OldOfAnother'
        BY <2>a, <3>1, <4>1, <4>2 DEF OldOfAnother, OfAnother, Has, Got
      <4>7. \A i \in Nat : RingFresh(i) => RingFresh(i)'
        BY <2>0, <3>1, <4>3 DEF RingFresh
      <4>8. HeldFresh' = HeldFresh /\ Has' = Has
        BY <3>1 DEF HeldFresh, Has
      <4>9. Ordered'
        <5>1. \A i \in 1..Len(line') : line'[i].try # 0 => LineFresh(i)'
          <6> SUFFICES ASSUME NEW i \in 1..Len(line'), line'[i].try # 0
                       PROVE  LineFresh(i)'
            OBVIOUS
          <6>1. CASE i = Len(line) + 1
            BY <4>4, <6>1
          <6>2. CASE i \in 1..Len(line)
            <7>1. line[i].try # 0 /\ i \in 1..(Len(line) + 1)
              BY <2>0, <4>1, <6>2
            <7> QED
              BY <2>a, <4>3, <6>2, <7>1 DEF Ordered
          <6> QED
            BY <4>2, <6>1, <6>2
        <5>2. \A i \in 1..Len(ring') : ring'[i].try # 0 => RingFresh(i)'
          BY <2>0, <2>a, <3>1, <4>7 DEF Ordered
        <5>3. RingFresh(1) => RingFresh(1)'
          BY <4>7
        <5> QED
          BY <2>a, <3>1, <4>8, <5>1, <5>2, <5>3 DEF Ordered, Got
      <4> QED
        BY <2>a, <3>1, <4>5, <4>6, <4>8, <4>9 DEF FreshInv, Ended, AnswerIsFresh
    <3>4. call.try # 0
      BY <2>a, <3>1 DEF Ended
    <3> QED
      BY <2>2, <3>2, <3>3, <3>4 DEF Write
  <2>3. CASE Clear
    <3>1. /\ call.at = "clear" /\ call'.at = "wait" /\ call'.reg = call.reg
          /\ call'.after = call.after /\ call'.try = call.try
      BY <2>0, <2>3 DEF Clear, Calls
    <3>2. /\ full' = FALSE /\ data'.reg = 0 /\ data'.try = 0
          /\ rx' = rx /\ ring' = ring /\ line' = line /\ result' = result
      BY <2>3 DEF Clear, Garbage
    <3>3. OfThisRead' /\ OldOfAnother'
      BY <2>a, <3>1, <3>2 DEF OfThisRead, OfRead, OldOfAnother, OfAnother, Has, Got
    <3>4. Ordered'
      BY <2>a, <3>1, <3>2 DEF Ordered, LineFresh, RingFresh, HeldFresh, Has, Got
    <3> QED
      BY <2>a, <3>1, <3>2, <3>3, <3>4 DEF FreshInv, Ended, Has, AnswerIsFresh
  <2>4. CASE WaitHalfSecond \/ Waited
    <3>1. /\ call.at = "wait" /\ call'.at \in {"wait", "take"} /\ call'.reg = call.reg
          /\ call'.after = call.after /\ call'.try = call.try
      BY <2>0, <2>4 DEF WaitHalfSecond, Waited, Calls
    <3>2. /\ full' = full /\ data' = data
          /\ rx' = rx /\ ring' = ring /\ line' = line /\ result' = result
      BY <2>4 DEF WaitHalfSecond, Waited
    <3>3. OfThisRead' /\ OldOfAnother'
      BY <2>a, <3>1, <3>2 DEF OfThisRead, OfRead, OldOfAnother, OfAnother, Has, Got
    <3>4. Ordered'
      BY <2>a, <3>1, <3>2 DEF Ordered, LineFresh, RingFresh, HeldFresh, Has, Got
    <3> QED
      BY <2>a, <3>1, <3>2, <3>3, <3>4 DEF FreshInv, Ended, Has, AnswerIsFresh
  <2>5. CASE Accept
    <3>1. /\ call.at = "take" /\ call'.at = "idle" /\ call'.reg = call.reg
          /\ call'.after = call.after
      BY <2>0, <2>5 DEF Accept, Calls
    <3>2. /\ full' = full /\ data' = data
          /\ rx' = rx /\ ring' = ring /\ line' = line
          /\ full /\ data.reg = call.reg
          /\ result' = IF data.try = 0 THEN "stale" ELSE "ok"
      BY <2>5 DEF Accept, Matches
    <3>3. Got
      BY <2>0, <2>a, <3>1, <3>2 DEF Got, Ended, Calls
    <3>4. OfThisRead' /\ OldOfAnother'
      BY <2>a, <3>1, <3>2 DEF OfThisRead, OfRead, OldOfAnother
    <3>5. Ordered'
      <4>1. data.try # 0 => RingFresh(1) /\ HeldFresh
        BY <2>a, <3>3 DEF Ordered
      <4> QED
        BY <2>a, <3>1, <3>2, <4>1 DEF Ordered, LineFresh, RingFresh, HeldFresh, Has, Got
    <3>6. AnswerIsFresh'
      BY <2>a, <3>1, <3>2, <3>3 DEF AnswerIsFresh, OldOfAnother, OfAnother
    <3> QED
      BY <2>a, <3>1, <3>2, <3>4, <3>5, <3>6 DEF FreshInv, Ended, Has
  <2>6. CASE Reject
    <3>1. /\ call.at = "take" /\ call'.at \in {"write", "idle"} /\ call'.reg = call.reg
          /\ call'.after = call.after /\ (call'.at = "write" => call'.try = call.try + 1)
          /\ result' = (IF call'.at = "write" THEN result ELSE "failed")
      <4>1. CASE call.try < Tries
        BY <2>0, <2>6, <4>1 DEF Reject, Calls
      <4>2. CASE ~(call.try < Tries)
        BY <2>0, <2>6, <4>2 DEF Reject, Calls
      <4> QED
        BY <4>1, <4>2
    <3>2. /\ full' = full /\ data' = data
          /\ rx' = rx /\ ring' = ring /\ line' = line
      BY <2>6 DEF Reject
    <3>3. OfThisRead' /\ OldOfAnother'
      BY <2>a, <3>1, <3>2 DEF OfThisRead, OfRead, OldOfAnother, OfAnother, Has, Got
    <3>4. result' # "ok"
      BY <2>a, <3>1 DEF Ended
    <3>5. Ordered'
      BY <2>a, <3>1, <3>2, <3>4 DEF Ordered, LineFresh, RingFresh, HeldFresh, Has, Got
    <3>6. AnswerIsFresh'
      BY <2>a, <3>1 DEF AnswerIsFresh
    <3>7. call'.at # "idle" => call'.try # 0
      BY <2>0, <3>1 DEF Calls
    <3>8. call'.at = "idle" => result' = "failed"
      BY <3>1
    <3>9. result' # "none" => call'.at = "idle"
      BY <2>a, <3>1 DEF Ended
    <3> QED
      BY <2>a, <3>2, <3>3, <3>5, <3>6, <3>7, <3>8, <3>9 DEF FreshInv, Ended, Has
  <2>7. CASE StartReading \/ ReadNothing
    <3>1. /\ ~Has /\ ~Has' /\ rx'.at # "copy" /\ rx.at # "copy" /\ rx'.chunk = rx.chunk
      BY <2>0, <2>7 DEF StartReading, ReadNothing, Readers, Has
    <3>2. /\ full' = full /\ data' = data /\ call' = call
          /\ ring' = ring /\ line' = line /\ result' = result
      BY <2>7 DEF StartReading, ReadNothing
    <3>3. OfThisRead' /\ OldOfAnother'
      BY <2>a, <3>1, <3>2 DEF OfThisRead, OfRead, OldOfAnother, OfAnother, Got
    <3>4. Ordered'
      BY <2>a, <3>1, <3>2 DEF Ordered, LineFresh, RingFresh, HeldFresh, Got
    <3> QED
      BY <2>a, <3>1, <3>2, <3>3, <3>4 DEF FreshInv, Ended, AnswerIsFresh
  <2>8. CASE ReadBytes
    <3> DEFINE n == Len(ring)
    <3>1. /\ rx.at = "in" /\ rx'.at = "set" /\ n > 0 /\ ring' = <<>>
          /\ full' = full /\ data' = data /\ call' = call
          /\ line' = line /\ result' = result
      BY <2>0, <2>8 DEF ReadBytes, Readers
    <3>2. ring[n] \in Answers /\ n \in 1..Len(ring)
      BY <2>0, <3>1
    <3>3. rx'.chunk.try = ring[n].try /\ rx'.chunk.reg \in {0, ring[n].reg}
      <4>1. CASE n = 1
        <5>1. rx'.chunk = Head(ring)
          BY <2>0, <2>8, <4>1 DEF ReadBytes, Readers
        <5> QED
          BY <2>0, <4>1, <5>1
      <4>2. CASE n # 1
        <5>1. rx'.chunk = [reg |-> 0, try |-> ring[n].try]
          BY <2>0, <2>8, <4>2 DEF ReadBytes, Readers
        <5> QED
          BY <5>1
      <4> QED
        BY <4>1, <4>2
    <3>4. Len(ring') = 0 /\ ~Has /\ Has' /\ rx'.at # "copy"
      BY <3>1 DEF Has
    <3> HIDE DEF n
    <3>5. OfThisRead'
      BY <2>a, <3>1, <3>2, <3>3, <3>4 DEF OfThisRead, OfRead
    <3>6. OldOfAnother'
      <4>1. SUFFICES ASSUME call.at # "idle", ~call.after
                     PROVE  /\ \A i \in 1..Len(line) : OfAnother(line[i])
                            /\ OfAnother(rx'.chunk)
                            /\ Got => OfAnother(data)
        BY <3>1, <3>4 DEF OldOfAnother, OfAnother, Got
      <4>2. call.reg # 0
        BY <2>0 DEF Calls
      <4> QED
        BY <2>a, <3>2, <3>3, <4>1, <4>2 DEF OldOfAnother, OfAnother
    <3>7. LineFresh(1) => RingFresh(1)'
      BY <3>1, <3>4 DEF LineFresh, RingFresh
    <3>8. rx'.chunk.try # 0 => RingFresh(1)'
      BY <2>a, <3>2, <3>3, <3>7 DEF Ordered, RingFresh
    <3>9. RingFresh(1) => RingFresh(1)' /\ HeldFresh'
      BY <3>2, <3>3, <3>7 DEF RingFresh, HeldFresh
    <3>10. Ordered'
      <4>1. \A i \in 1..Len(line') : line'[i].try # 0 => LineFresh(i)'
        BY <2>a, <3>1 DEF Ordered, LineFresh
      <4>2. \A i \in 1..Len(ring') : ring'[i].try # 0 => RingFresh(i)'
        BY <3>4
      <4>3. Got' = Got
        BY <3>1 DEF Got
      <4> QED
        BY <2>a, <3>1, <3>8, <3>9, <4>1, <4>2, <4>3 DEF Ordered
    <3> QED
      BY <2>a, <3>1, <3>2, <3>4, <3>5, <3>6, <3>10 DEF FreshInv, Ended, AnswerIsFresh
  <2>9. CASE ReadPart
    <3>1. /\ rx.at = "in" /\ rx'.at = "set" /\ Len(ring) = 1
          /\ full' = full /\ data' = data /\ call' = call
          /\ line' = line /\ result' = result
      BY <2>0, <2>9 DEF ReadPart, Readers
    <3>2. ring[1] \in Answers
      BY <2>0, <3>1
    <3>3. /\ rx'.chunk = [reg |-> 0, try |-> ring[1].try]
          /\ ring' = <<[reg |-> 0, try |-> ring[1].try]>>
      <4>1. [ring[1] EXCEPT !.reg = 0] = [reg |-> 0, try |-> ring[1].try]
        BY <3>2 DEF Answers
      <4> QED
        BY <2>0, <2>9, <4>1 DEF ReadPart, Readers
    <3>4. /\ Len(ring') = 1 /\ ring'[1].reg = 0 /\ ring'[1].try = ring[1].try
          /\ rx'.chunk.reg = 0 /\ rx'.chunk.try = ring[1].try
          /\ ~Has /\ Has' /\ rx'.at # "copy" /\ 1 \in 1..Len(ring)
      BY <3>1, <3>3 DEF Has
    <3>5. OfThisRead'
      BY <2>a, <3>1, <3>4 DEF OfThisRead, OfRead
    <3>6. OldOfAnother'
      <4>1. call.reg # 0
        BY <2>0 DEF Calls
      <4> QED
        BY <2>a, <3>1, <3>4, <4>1 DEF OldOfAnother, OfAnother, Got
    <3>7. /\ ring[1].try # 0 => RingFresh(1)
          /\ RingFresh(1) => RingFresh(1)' /\ HeldFresh'
      BY <2>a, <3>1, <3>4 DEF Ordered, LineFresh, RingFresh, HeldFresh
    <3>8. Ordered'
      <4>1. \A i \in 1..Len(line') : line'[i].try # 0 => LineFresh(i)'
        BY <2>a, <3>1 DEF Ordered, LineFresh
      <4>2. \A i \in 1..Len(ring') : ring'[i].try # 0 => RingFresh(i)'
        BY <3>4, <3>7
      <4>3. Got' = Got
        BY <3>1 DEF Got
      <4> QED
        BY <2>a, <3>1, <3>4, <3>7, <4>1, <4>2, <4>3 DEF Ordered
    <3>9. ring # <<>>
      <4> SUFFICES ASSUME ring = <<>> PROVE FALSE
        OBVIOUS
      <4>1. Len(ring) = 0
        OBVIOUS
      <4> QED
        BY <3>1, <4>1
    <3>10. ~(call.at = "idle" /\ result = "none")
      BY <2>a, <3>9 DEF Ended
    <3> QED
      BY <2>a, <3>1, <3>4, <3>5, <3>6, <3>8, <3>10 DEF FreshInv, Ended, AnswerIsFresh
  <2>10. CASE SetLength
    <3>1. /\ rx.at = "set" /\ rx'.at = "copy" /\ rx'.chunk = rx.chunk
          /\ data'.reg = 0 /\ data'.try = 0 /\ call' = call
          /\ line' = line /\ ring' = ring /\ result' = result
      BY <2>0, <2>10 DEF SetLength, Readers, Garbage
    <3>2. OfThisRead' /\ OldOfAnother'
      BY <2>a, <3>1 DEF OfThisRead, OfRead, OldOfAnother, OfAnother, Has, Got
    <3>3. Ordered'
      BY <2>a, <3>1 DEF Ordered, LineFresh, RingFresh, HeldFresh, Has, Got
    <3> QED
      BY <2>a, <3>1, <3>2, <3>3 DEF FreshInv, Ended, Has, AnswerIsFresh
  <2>11. CASE CopyBytes
    <3>1. /\ rx.at = "copy" /\ rx'.at = "out" /\ rx'.chunk.reg = 0 /\ rx'.chunk.try = 0
          /\ data' = rx.chunk /\ call' = call
          /\ line' = line /\ ring' = ring /\ result' = result
      BY <2>11 DEF CopyBytes, Garbage
    <3>2. OfThisRead' /\ OldOfAnother'
      BY <2>a, <3>1 DEF OfThisRead, OfRead, OldOfAnother, OfAnother, Has, Got
    <3>3. Ordered'
      BY <2>a, <3>1 DEF Ordered, LineFresh, RingFresh, HeldFresh, Has, Got
    <3> QED
      BY <2>a, <3>1, <3>2, <3>3 DEF FreshInv, Ended, Has, AnswerIsFresh
  <2>12. CASE Answer \/ Lose
    <3>1. /\ call' = call /\ full' = full /\ data' = data /\ rx' = rx /\ result' = result
          /\ line # <<>> /\ line' = Tail(line)
          /\ (ring' = ring \/ ring' = Append(ring, Head(line)))
      BY <2>12 DEF Answer, Lose
    <3>2. /\ Len(line') = Len(line) - 1 /\ 1 \in 1..Len(line)
          /\ \A i \in 1..Len(line') : line'[i] = line[i + 1] /\ i + 1 \in 1..Len(line)
      BY <2>0, <3>1
    <3>3. /\ Len(ring') \in {Len(ring), Len(ring) + 1}
          /\ \A i \in 1..Len(ring) : ring'[i] = ring[i]
          /\ Len(ring') = Len(ring) + 1 => ring'[Len(ring) + 1] = line[1]
      BY <2>0, <3>1
    <3>4. \A i \in 1..Len(ring') : ring'[i] = line[1] \/ (i \in 1..Len(ring) /\ ring'[i] = ring[i])
      BY <2>0, <3>3
    <3>5. OfThisRead'
      BY <2>a, <3>1, <3>2, <3>4 DEF OfThisRead, OfRead
    <3>6. OldOfAnother'
      BY <2>a, <3>1, <3>2, <3>4 DEF OldOfAnother, OfAnother, Has, Got
    <3>7. \A i \in 1..Len(line') : line'[i].try # 0 => LineFresh(i)'
      <4> SUFFICES ASSUME NEW i \in 1..Len(line'), line'[i].try # 0
                   PROVE  LineFresh(i)'
        OBVIOUS
      <4>1. line[i + 1].try # 0 /\ i + 1 \in 1..Len(line)
        BY <3>2
      <4>2. LineFresh(i + 1)
        BY <2>a, <4>1 DEF Ordered
      <4>3. \A j \in i..Len(line') : line'[j] = line[j + 1] /\ j + 1 \in (i + 1)..Len(line)
        BY <2>0, <3>2
      <4> QED
        BY <4>2, <4>3 DEF LineFresh
    <3>8. LineFresh(1) => LineFresh(1)'
      <4>1. \A j \in 1..Len(line') : line'[j] = line[j + 1] /\ j + 1 \in 1..Len(line)
        BY <2>0, <3>2
      <4> QED
        BY <4>1 DEF LineFresh
    <3>9. \A i \in 1..Len(ring) : RingFresh(i) => RingFresh(i)'
      <4> SUFFICES ASSUME NEW i \in 1..Len(ring), RingFresh(i)
                   PROVE  RingFresh(i)'
        OBVIOUS
      <4>1. line[1].try # 0
        BY <3>2 DEF RingFresh, LineFresh
      <4>2. \A j \in i..Len(ring') : ring'[j] = line[1] \/ (j \in i..Len(ring) /\ ring'[j] = ring[j])
        BY <2>0, <3>4
      <4> QED
        BY <3>8, <4>1, <4>2 DEF RingFresh
    <3>10. RingFresh(1) => RingFresh(1)'
      <4>1. RingFresh(1) => line[1].try # 0
        BY <3>2 DEF RingFresh, LineFresh
      <4> QED
        BY <3>4, <3>8, <4>1 DEF RingFresh
    <3>11. \A i \in 1..Len(ring') : ring'[i].try # 0 => RingFresh(i)'
      <4> SUFFICES ASSUME NEW i \in 1..Len(ring'), ring'[i].try # 0
                   PROVE  RingFresh(i)'
        OBVIOUS
      <4>1. CASE i \in 1..Len(ring)
        BY <2>a, <3>3, <3>9, <4>1 DEF Ordered
      <4>2. CASE i \notin 1..Len(ring)
        <5>1. i = Len(ring') /\ ring'[i] = line[1]
          BY <2>0, <3>3, <4>2
        <5>2. LineFresh(1)'
          BY <2>a, <3>2, <3>8, <5>1 DEF Ordered
        <5> QED
          BY <2>0, <3>3, <5>1, <5>2 DEF RingFresh
      <4> QED
        BY <4>1, <4>2
    <3>12. Ordered'
      BY <2>a, <3>1, <3>7, <3>10, <3>11 DEF Ordered, HeldFresh, Has, Got
    <3>13. ~(call.at = "idle" /\ result = "none")
      BY <2>a, <3>1 DEF Ended
    <3> QED
      BY <2>a, <3>1, <3>5, <3>6, <3>12, <3>13 DEF FreshInv, Ended, Has, AnswerIsFresh
  <2>13. CASE UNCHANGED vars
    BY <2>a, <2>13 DEF vars, FreshInv, OfThisRead, OfRead, OldOfAnother, OfAnother, Ordered,
       LineFresh, RingFresh, HeldFresh, Has, Got, Ended, AnswerIsFresh
  <2> QED
    BY <2>1, <2>2, <2>3, <2>4, <2>5, <2>6, <2>7, <2>8, <2>9, <2>10, <2>11, <2>12,
       <2>13 DEF Next, ReadTask, RxTask
<1> QED
  BY <1>1, <1>2, TypeInvariant, PTL DEF Spec

\* Whatever is lost, late, cut or joined, a read that follows an answered one
\* gives no answer of an earlier round.
THEOREM FreshAnswer == Spec => []AnswerIsFresh
<1>1. FreshInv => AnswerIsFresh
  BY DEF FreshInv
<1> QED
  BY <1>1, FreshInvariant, PTL

-----------------------------------------------------------------------------
\* The answers under way to the caller, in order: the one rx_task holds, those
\* of the driver and those of the line.
Held == rx.at = "set" \/ (rx.at = "copy" /\ full)
Ahead == IF Held THEN 1 ELSE 0

Current(a) == a.reg = call.reg /\ a.try = call.try

Nothing == ~Held /\ Len(ring) = 0 /\ Len(line) = 0

\* All that is under way is the answer to this try.
Alone ==
  \/ Held /\ Current(rx.chunk) /\ Len(ring) = 0 /\ Len(line) = 0
  \/ ~Held /\ Len(ring) = 1 /\ Current(ring[1]) /\ Len(line) = 0
  \/ ~Held /\ Len(ring) = 0 /\ Len(line) = 1 /\ Current(line[1])

\* As long as nothing went wrong this is the first try, its answer is alone, and
\* the wait ends with it.
Untroubled ==
  trouble = 0 /\ call.at # "idle" =>
    /\ call.try = 1
    /\ rx.at = "copy" => full
    /\ call.at = "write" => Nothing
    /\ call.at = "clear" => Alone \/ (Nothing /\ full /\ Current(data))
    /\ call.at = "wait" =>
         (Alone /\ (full => rx.at = "copy")) \/ (Nothing /\ full /\ Current(data))
    /\ call.at = "take" =>
         full /\ ((Alone /\ rx.at = "copy") \/ (Nothing /\ Current(data)))

\* After one thing went wrong at most two answers that are no good are under way
\* at the first try, one at the second, none at the third, all in front.
GotBad == Got /\ data.reg # call.reg
BadLeft == 3 - call.try - (IF GotBad THEN 1 ELSE 0)
Intact(n, a) == n > BadLeft => a.reg = call.reg

\* The answer to this try is the last one under way.
Coming ==
  \/ Len(line) > 0 /\ Current(line[Len(line)])
  \/ Len(line) = 0 /\ Len(ring) > 0 /\ Current(ring[Len(ring)])
  \/ Len(line) = 0 /\ Len(ring) = 0 /\ Held /\ Current(rx.chunk)
  \/ Nothing /\ full /\ Current(data)

FirstOnly ==
  /\ call.try = 1
  /\ Held => rx.chunk.try = 1
  /\ \A i \in 1..Len(ring) : ring[i].try = 1
  /\ \A i \in 1..Len(line) : line[i].try = 1

AllGood ==
  /\ Held => rx.chunk.reg = call.reg
  /\ \A i \in 1..Len(ring) : ring[i].reg = call.reg
  /\ \A i \in 1..Len(line) : line[i].reg = call.reg

FewBad ==
  /\ call.try <= 3
  /\ Held => Intact(1, rx.chunk)
  /\ \A i \in 1..Len(ring) : Intact(Ahead + i, ring[i])
  /\ \A i \in 1..Len(line) : Intact(Ahead + Len(ring) + i, line[i])
  /\ GotBad => call.try < 3

\* The wait ends without an answer at the first try at most: the answer to a
\* later one has nothing left to be late for.
Troubled ==
  trouble = 1 /\ call.at # "idle" =>
    /\ FewBad
    /\ call.at # "write" => Coming \/ FirstOnly
    /\ call.at = "take" /\ ~full => call.try = 1 /\ AllGood

SurviveInv == Untroubled /\ Troubled /\ OneTroubleIsSurvived

LEMMA FewEnough ==
  ASSUME Len(line) \in Nat, Len(ring) \in Nat, call.try = 1, ~GotBad,
         Ahead + Len(ring) + Len(line) <= 2
  PROVE  FewBad
BY DEF FewBad, Intact, BadLeft, Ahead, GotBad

LEMMA FewEnoughAfter ==
  ASSUME Len(line') \in Nat, Len(ring') \in Nat, call'.try = 1, ~GotBad',
         Ahead' + Len(ring') + Len(line') <= 2
  PROVE  FewBad'
BY DEF FewBad, Intact, BadLeft, Ahead, GotBad

\* What is said of the answers under way does not depend on where the caller is.
LEMMA SameView ==
  ASSUME UNCHANGED <<line, ring, full, data>>, Held' = Held, rx'.chunk = rx.chunk,
         call'.reg = call.reg, call'.try = call.try
  PROVE  /\ Ahead' = Ahead /\ Nothing' = Nothing /\ Alone' = Alone
         /\ (Coming \/ FirstOnly) => (Coming \/ FirstOnly)'
         /\ AllGood => AllGood'
         /\ GotBad' = GotBad => (FewBad => FewBad')
<1>1. Ahead' = Ahead /\ Nothing' = Nothing
  BY DEF Ahead, Nothing
<1>2. Alone' = Alone
  BY DEF Alone, Current
<1>3. Coming => Coming'
  BY <1>1 DEF Coming, Current
<1>4. FirstOnly => FirstOnly'
  BY DEF FirstOnly
<1>5. AllGood => AllGood'
  BY DEF AllGood
<1>6. GotBad' = GotBad => BadLeft' = BadLeft
  BY DEF BadLeft
<1>7. GotBad' = GotBad => (FewBad => FewBad')
  BY <1>1, <1>6 DEF FewBad, Intact
<1> QED
  BY <1>1, <1>2, <1>3, <1>4, <1>5, <1>7

\* With three tries or more, one thing that goes wrong in a read never makes it
\* fail: "Retry up to three times" of Cse7761Read holds what it is there for.
THEOREM OneTrouble ==
  ASSUME Tries >= 3
  PROVE  Spec => []OneTroubleIsSurvived
<1> USE UartAssumption
<1>1. Init => SurviveInv
  BY DEF Init, SurviveInv, Untroubled, Troubled, OneTroubleIsSurvived
<1>2. TypeOK /\ FreshInv /\ SurviveInv /\ [Next]_vars => SurviveInv'
  <2> SUFFICES ASSUME TypeOK, FreshInv, SurviveInv, [Next]_vars
               PROVE  SurviveInv'
    OBVIOUS
  <2> USE DEF shared, wire
  <2>t. /\ call \in Calls /\ rx \in Readers /\ data \in Answers /\ trouble \in 0..2
        /\ line \in Seq(Answers) /\ ring \in Seq(Answers)
    BY DEF TypeOK, Calls, Readers
  <2>0. /\ call \in Calls /\ rx \in Readers /\ data \in Answers /\ trouble \in 0..2
        /\ line \in Seq(Answers) /\ ring \in Seq(Answers)
        /\ \A i \in 1..Len(line) : line[i] \in Answers
        /\ \A i \in 1..Len(ring) : ring[i] \in Answers
        /\ Len(line) \in Nat /\ Len(ring) \in Nat
        /\ call.try \in Nat /\ call.reg \in Nat /\ call.reg # 0
    BY <2>t DEF Calls
  <2>a. Untroubled /\ Troubled /\ OneTroubleIsSurvived
    BY DEF SurviveInv
  <2>b. /\ result # "none" => call.at = "idle"
        /\ rx.at = "copy" => data.reg = 0
    BY DEF FreshInv, Ended
  <2>c. Ahead = (IF Held THEN 1 ELSE 0) /\ Ahead' = (IF Held' THEN 1 ELSE 0)
    BY DEF Ahead
  <2>1. CASE Read
    <3>1. /\ call'.at = "write" /\ call'.try = 1 /\ call.at = "idle"
          /\ rx'.at = rx.at /\ full' = full /\ result' = "none"
          /\ line' = Old(line) /\ ring' = Old(ring)
      BY <2>0, <2>1 DEF Read, Calls, Readers
    <3>2. Len(line') = Len(line) /\ Len(ring') = Len(ring)
      BY <2>0, <3>1, OldTyped
    <3>3. /\ trouble' = 0 => Len(line) = 0 /\ Len(ring) = 0 /\ ~Has
          /\ trouble' = 1 => Len(line) + Len(ring) + (IF Has THEN 1 ELSE 0) = 1
      BY <2>0, <2>1 DEF Read, Has
    <3>4. (Held' => Has) /\ ~GotBad' /\ (rx'.at = "copy" => Has)
      BY <3>1 DEF Held, Has, GotBad, Got
    <3>5. Untroubled'
      BY <3>1, <3>2, <3>3, <3>4 DEF Untroubled, Nothing
    <3>6. trouble' = 1 => FewBad'
      BY <2>0, <2>c, <3>1, <3>2, <3>3, <3>4, FewEnoughAfter
    <3> QED
      BY <3>1, <3>5, <3>6 DEF SurviveInv, Troubled, OneTroubleIsSurvived
  <2>2. CASE Write
    <3>1. /\ call.at = "write" /\ call'.at = "clear" /\ call'.reg = call.reg
          /\ call'.try = call.try /\ result' = result
          /\ data' = data /\ full' = full /\ rx' = rx /\ ring' = ring
      BY <2>0, <2>2 DEF Write, Calls
    <3>2. CASE ~(Len(line) + Len(ring) < MaxPending)
      <4>1. trouble # 0
        BY <2>0, <2>a, <3>1, <3>2 DEF Untroubled, Nothing
      <4>2. trouble' = 2
        BY <2>0, <2>2, <3>2, <4>1 DEF Write, Troubles
      <4> QED
        BY <4>2 DEF SurviveInv, Untroubled, Troubled, OneTroubleIsSurvived
    <3>3. CASE Len(line) + Len(ring) < MaxPending
      <4>1. /\ line' = Append(line, [reg |-> call.reg, try |-> call.try])
            /\ trouble' = trouble
        BY <2>2, <3>3 DEF Write
      <4>2. /\ Len(line') = Len(line) + 1
            /\ \A i \in 1..Len(line) : line'[i] = line[i]
            /\ line'[Len(line')].reg = call.reg /\ line'[Len(line')].try = call.try
            /\ \A i \in 1..Len(line') : i \in 1..Len(line) \/ i = Len(line')
        BY <2>0, <4>1
      <4>3. Held' = Held /\ ~GotBad /\ ~GotBad' /\ Ahead' = Ahead
        BY <3>1 DEF Held, GotBad, Got, Ahead
      <4>4. BadLeft' = BadLeft
        BY <3>1, <4>3 DEF BadLeft
      <4>5. Untroubled'
        BY <2>0, <2>a, <3>1, <4>1, <4>2, <4>3 DEF Untroubled, Nothing, Alone, Current, Held
      <4>6. FewBad => FewBad'
        BY <3>1, <4>2, <4>3, <4>4 DEF FewBad, Intact
      <4>7. Coming'
        BY <2>0, <3>1, <4>2 DEF Coming, Current
      <4> QED
        BY <2>a, <3>1, <4>1, <4>5, <4>6, <4>7 DEF SurviveInv, Troubled, OneTroubleIsSurvived
    <3> QED
      BY <3>2, <3>3
  <2>3. CASE Clear
    <3>1. /\ call.at = "clear" /\ call'.at = "wait" /\ call'.reg = call.reg
          /\ call'.try = call.try
      BY <2>0, <2>3 DEF Clear, Calls
    <3>2. /\ full' = FALSE /\ data'.reg = 0 /\ data'.try = 0
          /\ rx' = rx /\ ring' = ring /\ line' = line /\ result' = result
          /\ IF Clears THEN Troubles(1) ELSE trouble' = trouble
      BY <2>3 DEF Clear, Garbage
    <3>3. Untroubled'
      BY <2>0, <2>a, <3>1, <3>2 DEF Untroubled, Alone, Nothing, Held, Current, Clears, Troubles, Readers, Answers
    <3>4. ~GotBad /\ ~GotBad' /\ BadLeft' = BadLeft
      BY <3>1, <3>2 DEF GotBad, Got, BadLeft
    <3>5. ASSUME trouble = 0, trouble' = 1
         PROVE  Troubled'
      <4>1. call.try = 1 /\ (Alone \/ (Nothing /\ full /\ Current(data)))
        BY <2>a, <3>1, <3>5 DEF Untroubled
      <4>2. Len(ring) + Len(line) <= 1
        BY <2>0, <4>1 DEF Alone, Nothing
      <4>3. FewBad'
        BY <2>0, <2>c, <3>1, <3>2, <3>4, <4>1, <4>2, FewEnoughAfter
      <4>4. FirstOnly'
        BY <2>0, <3>1, <3>2, <4>1 DEF FirstOnly, Alone, Nothing, Held, Current
      <4> QED
        BY <3>1, <4>3, <4>4 DEF Troubled
    <3>6. ASSUME trouble = 1, trouble' = 1
         PROVE  Troubled'
      <4>1. rx.at # "copy" /\ ~(full /\ Current(data))
        BY <3>2, <3>6 DEF Troubles, Clears, Current
      <4>2. Held' = Held /\ Ahead' = Ahead
        BY <3>2, <4>1 DEF Held, Ahead
      <4>3. FewBad /\ (Coming \/ FirstOnly)
        BY <2>a, <3>1, <3>6 DEF Troubled
      <4>4. FewBad'
        BY <3>1, <3>2, <3>4, <4>2, <4>3 DEF FewBad, Intact
      <4>5. (Coming \/ FirstOnly)'
        BY <3>1, <3>2, <4>1, <4>2, <4>3 DEF Coming, FirstOnly, Current
      <4> QED
        BY <3>1, <4>4, <4>5 DEF Troubled
    <3>7. trouble' >= trouble /\ trouble' \in 0..2
      BY <2>0, <3>2 DEF Troubles
    <3>8. Troubled'
      BY <2>0, <3>5, <3>6, <3>7 DEF Troubled
    <3> QED
      BY <2>0, <2>a, <3>2, <3>3, <3>7, <3>8 DEF SurviveInv, OneTroubleIsSurvived
  <2>4. CASE WaitHalfSecond
    <3>1. /\ call.at = "wait" /\ call'.at = "wait" /\ call'.reg = call.reg
          /\ call'.try = call.try
      BY <2>0, <2>4 DEF WaitHalfSecond, Calls
    <3>2. /\ UNCHANGED <<line, ring, full, data>> /\ rx' = rx /\ Held' = Held
          /\ result' = result /\ trouble' = trouble
      BY <2>4 DEF WaitHalfSecond, Held
    <3>3. GotBad' = GotBad
      BY <3>1, <3>2 DEF GotBad, Got
    <3>4. Untroubled'
      BY <2>a, <3>1, <3>2, SameView DEF Untroubled, Current
    <3>5. Troubled'
      BY <2>a, <3>1, <3>2, <3>3, SameView DEF Troubled
    <3> QED
      BY <2>a, <3>2, <3>4, <3>5 DEF SurviveInv, OneTroubleIsSurvived
  <2>5. CASE Waited
    <3>1. /\ call.at = "wait" /\ call'.at = "take" /\ call'.reg = call.reg
          /\ call'.try = call.try
      BY <2>0, <2>5 DEF Waited, Calls
    <3>2. /\ UNCHANGED <<line, ring, full, data>> /\ rx' = rx /\ Held' = Held
          /\ result' = result
          /\ IF ~full /\ Late THEN Troubles(1) ELSE trouble' = trouble
      BY <2>5 DEF Waited, Held
    <3>3. GotBad' = GotBad
      BY <3>1, <3>2 DEF GotBad, Got
    <3>4. Alone => Late
      BY <2>0 DEF Alone, Late, Current, Held
    <3>5. Untroubled'
      <4>1. SUFFICES ASSUME trouble' = 0
                     PROVE  /\ call.try = 1
                            /\ full /\ ((Alone /\ rx.at = "copy") \/ (Nothing /\ Current(data)))
        BY <3>1, <3>2, SameView DEF Untroubled, Current
      <4>2. trouble = 0 /\ ~(~full /\ Late)
        BY <2>0, <3>2, <4>1 DEF Troubles
      <4> QED
        BY <2>a, <3>1, <3>4, <4>2 DEF Untroubled
    <3>6. ASSUME trouble = 0, trouble' = 1
         PROVE  Troubled'
      <4>1. ~full /\ Alone /\ call.try = 1
        BY <2>a, <3>1, <3>2, <3>6 DEF Untroubled
      <4>2. FewBad
        <5>1. ~GotBad
          BY <4>1 DEF GotBad, Got
        <5>2. Ahead + Len(ring) + Len(line) <= 2
          BY <2>0, <2>c, <4>1 DEF Alone
        <5> QED
          BY <2>0, <4>1, <5>1, <5>2, FewEnough
      <4>3. Coming
        BY <4>1 DEF Alone, Coming
      <4>4. AllGood
        BY <2>0, <4>1 DEF Alone, AllGood, Current
      <4> QED
        BY <3>1, <3>2, <3>3, <4>1, <4>2, <4>3, <4>4, SameView DEF Troubled
    <3>7. ASSUME trouble = 1, trouble' = 1
         PROVE  Troubled'
      <4>1. FewBad /\ (Coming \/ FirstOnly)
        BY <2>a, <3>1, <3>7 DEF Troubled
      <4>2. ASSUME ~full PROVE call.try = 1 /\ AllGood
        <5>1. ~Late
          BY <3>2, <3>7, <4>2 DEF Troubles
        <5>2. ~Coming
          BY <2>0, <4>2, <5>1 DEF Late, Coming, Current, Held, Nothing
        <5>3. FirstOnly
          BY <4>1, <5>2
        <5>4. ~Held
          BY <5>1, <5>3 DEF Late, FirstOnly, Held
        <5>5. Len(ring) = 0 /\ Len(line) = 0
          BY <2>0, <5>1, <5>3 DEF Late, FirstOnly
        <5> QED
          BY <5>3, <5>4, <5>5 DEF FirstOnly, AllGood
      <4> QED
        BY <3>1, <3>2, <3>3, <4>1, <4>2, SameView DEF Troubled
    <3>8. trouble' >= trouble /\ trouble' \in 0..2
      BY <2>0, <3>2 DEF Troubles
    <3>9. Troubled'
      BY <2>0, <3>6, <3>7, <3>8 DEF Troubled
    <3> QED
      BY <2>0, <2>a, <3>2, <3>5, <3>8, <3>9 DEF SurviveInv, OneTroubleIsSurvived
  <2>6. CASE Accept
    <3>1. call'.at = "idle" /\ result' # "failed"
      BY <2>0, <2>6 DEF Accept, Calls
    <3> QED
      BY <3>1 DEF SurviveInv, Untroubled, Troubled, OneTroubleIsSurvived
  <2>7. CASE Reject
    <3>1. /\ call.at = "take" /\ call'.reg = call.reg
          /\ IF call.try < Tries
             THEN call'.at = "write" /\ call'.try = call.try + 1 /\ result' = result
             ELSE call'.at = "idle" /\ result' = "failed"
      <4>1. CASE call.try < Tries
        BY <2>0, <2>7, <4>1 DEF Reject, Calls
      <4>2. CASE ~(call.try < Tries)
        BY <2>0, <2>7, <4>2 DEF Reject, Calls
      <4> QED
        BY <4>1, <4>2
    <3>2. /\ UNCHANGED <<line, ring, full, data>> /\ rx' = rx /\ Held' = Held
          /\ ~(full /\ data.reg = call.reg)
          /\ IF full /\ rx.at = "copy" THEN Troubles(1) ELSE trouble' = trouble
      BY <2>7 DEF Reject, Held, Matches
    <3>3. trouble' >= trouble /\ trouble' \in 0..2
      BY <2>0, <3>2 DEF Troubles
    <3>4. trouble' # 0
      BY <2>0, <2>a, <3>1, <3>2 DEF Troubled, Untroubled, Troubles, Current
    <3>5. ASSUME trouble = 1, ~(full /\ rx.at = "copy")
          PROVE  call.try < 3 /\ (full => GotBad) /\ (~full => call.try = 1 /\ AllGood)
      <4>1. GotBad => call.try < 3
        BY <2>a, <3>1, <3>5 DEF Troubled, FewBad
      <4>2. ~full => call.try = 1 /\ AllGood
        BY <2>a, <3>1, <3>5 DEF Troubled
      <4>3. full => GotBad
        BY <3>1, <3>2, <3>5 DEF GotBad, Got
      <4> QED
        BY <4>1, <4>2, <4>3
    <3>6. CASE ~(call.try < Tries)
      <4>1. call.try >= 3
        BY <2>0, <3>6
      <4>2. trouble # 0
        BY <2>a, <3>1, <4>1 DEF Untroubled
      <4>3. trouble' = 2
        BY <2>0, <3>2, <3>3, <3>5, <4>1, <4>2 DEF Troubles
      <4> QED
        BY <4>3 DEF SurviveInv, Untroubled, Troubled, OneTroubleIsSurvived
    <3>7. CASE call.try < Tries
      <4>1. call'.at = "write" /\ call'.try = call.try + 1 /\ result' # "failed"
        BY <2>b, <3>1, <3>7
      <4>2. ~GotBad' /\ BadLeft' = 2 - call.try /\ Ahead' = Ahead
        BY <2>0, <3>2, <4>1 DEF GotBad, Got, BadLeft, Ahead
      <4>3. ASSUME trouble = 0, trouble' = 1
            PROVE  FewBad'
        <5>1. call.try = 1 /\ Held /\ Len(ring) = 0 /\ Len(line) = 0
          BY <2>a, <3>1, <3>2, <4>3 DEF Untroubled, Alone, Held, Current
        <5> QED
          BY <2>c, <3>2, <4>1, <4>2, <5>1 DEF FewBad, Intact
      <4>4. ASSUME trouble = 1, trouble' = 1
            PROVE  FewBad'
        <5>1. ~(full /\ rx.at = "copy")
          BY <3>2, <4>4 DEF Troubles
        <5>2. FewBad
          BY <2>a, <3>1, <4>4 DEF Troubled
        <5>3. full => BadLeft = 2 - call.try
          BY <2>0, <3>5, <4>4, <5>1 DEF BadLeft
        <5>4. CASE full
          BY <2>0, <3>1, <3>2, <3>5, <4>1, <4>2, <4>4, <5>1, <5>2, <5>3, <5>4 DEF FewBad, Intact
        <5>5. CASE ~full
          <6>1. call.try = 1 /\ AllGood
            BY <3>5, <4>4, <5>1, <5>5
          <6> QED
            BY <3>1, <3>2, <4>1, <4>2, <6>1 DEF FewBad, Intact, AllGood
        <5> QED
          BY <5>4, <5>5
      <4>5. trouble' = 1 => FewBad'
        BY <2>0, <3>3, <4>3, <4>4
      <4> QED
        BY <3>4, <4>1, <4>5 DEF SurviveInv, Untroubled, Troubled, OneTroubleIsSurvived
    <3> QED
      BY <3>6, <3>7
  <2>8. CASE StartReading \/ ReadNothing
    <3>1. /\ ~Held /\ ~Held' /\ rx'.at # "copy" /\ rx.at # "copy" /\ rx'.chunk = rx.chunk
      BY <2>0, <2>8 DEF StartReading, ReadNothing, Readers, Held
    <3>2. /\ UNCHANGED <<line, ring, full, data>> /\ call' = call
          /\ result' = result /\ trouble' = trouble
      BY <2>8 DEF StartReading, ReadNothing
    <3>3. GotBad' = GotBad
      BY <3>1, <3>2 DEF GotBad, Got
    <3>s. /\ Ahead' = Ahead /\ Nothing' = Nothing /\ Alone' = Alone
          /\ (Coming \/ FirstOnly) => (Coming \/ FirstOnly)'
          /\ AllGood => AllGood'
          /\ FewBad => FewBad'
      <4>1. Held' = Held
        BY <2>0, <2>8 DEF StartReading, ReadNothing, Readers, Held
      <4>2. call'.reg = call.reg /\ call'.try = call.try
        BY <3>2
      <4> QED
        BY <3>1, <3>2, <3>3, <4>1, <4>2, SameView
    <3>4. Untroubled'
      BY <2>a, <3>1, <3>2, <3>s DEF Untroubled, Current
    <3>5. Troubled'
      BY <2>a, <3>1, <3>2, <3>s DEF Troubled
    <3> QED
      BY <2>a, <3>2, <3>4, <3>5 DEF SurviveInv, OneTroubleIsSurvived
  <2>9. CASE ReadBytes
    <3>1. /\ rx.at = "in" /\ rx'.at = "set" /\ ring # <<>> /\ ring' = <<>>
          /\ full' = full /\ data' = data /\ call' = call
          /\ line' = line /\ result' = result
          /\ Troubles(Len(ring) - 1)
      BY <2>0, <2>9 DEF ReadBytes, Readers
    <3>2. ~Held /\ Held' /\ Len(ring') = 0 /\ Len(ring) > 0
      BY <2>0, <3>1 DEF Held
    <3>3. CASE Len(ring) > 1
      <4>1. trouble = 0 => call.at = "idle"
        BY <2>0, <2>a, <3>3 DEF Untroubled, Alone, Nothing, TypeOK
      <4>2. trouble' >= trouble /\ trouble' # 0 /\ (trouble # 0 => trouble' = 2)
        BY <2>0, <3>1, <3>3 DEF Troubles
      <4> QED
        BY <2>0, <2>a, <3>1, <4>1, <4>2 DEF SurviveInv, Untroubled, Troubled, OneTroubleIsSurvived
    <3>4. CASE Len(ring) = 1
      <4>1. rx'.chunk = ring[1] /\ trouble' = trouble
        <5>1. rx'.chunk = Head(ring)
          BY <2>0, <2>9, <3>4 DEF ReadBytes, Readers
        <5> QED
          BY <2>0, <3>1, <3>4, <5>1 DEF Troubles
      <4>2. GotBad' = GotBad /\ BadLeft' = BadLeft
        BY <3>1 DEF GotBad, Got, BadLeft
      <4>3. Alone => Alone'
        BY <3>1, <3>2, <3>4, <4>1 DEF Alone, Current
      <4>4. Untroubled'
        BY <2>a, <3>1, <3>2, <3>4, <4>1, <4>3 DEF Untroubled, Nothing
      <4>5. FewBad => FewBad'
        BY <2>0, <2>c, <3>1, <3>2, <3>4, <4>1, <4>2 DEF FewBad, Intact
      <4>6. Coming => Coming'
        BY <2>0, <3>1, <3>2, <3>4, <4>1 DEF Coming, Current, Nothing
      <4>7. FirstOnly => FirstOnly'
        BY <3>1, <3>2, <3>4, <4>1 DEF FirstOnly
      <4>8. AllGood => AllGood'
        BY <3>1, <3>2, <3>4, <4>1 DEF AllGood
      <4>9. Troubled'
        BY <2>a, <3>1, <4>1, <4>5, <4>6, <4>7, <4>8 DEF Troubled
      <4> QED
        BY <2>a, <3>1, <4>1, <4>4, <4>9 DEF SurviveInv, OneTroubleIsSurvived
    <3>5. Len(ring) = 1 \/ Len(ring) > 1
      <4> DEFINE n == Len(ring)
      <4>1. n \in Nat /\ n > 0
        BY <2>0, <3>2
      <4> HIDE DEF n
      <4>2. n = 1 \/ n > 1
        BY <4>1
      <4> QED
        BY <4>2 DEF n
    <3> QED
      BY <3>3, <3>4, <3>5
  <2>10. CASE ReadPart
    <3>1. /\ rx.at = "in" /\ rx'.at = "set" /\ Len(ring) = 1
          /\ full' = full /\ data' = data /\ call' = call
          /\ line' = line /\ result' = result /\ Troubles(1)
      BY <2>0, <2>10 DEF ReadPart, Readers
    <3>2. ring[1] \in Answers
      BY <2>0, <3>1
    <3>3. /\ rx'.chunk.try = ring[1].try /\ Len(ring') = 1 /\ ring'[1].try = ring[1].try
      <4>1. [ring[1] EXCEPT !.reg = 0] = [reg |-> 0, try |-> ring[1].try]
        BY <3>2 DEF Answers
      <4>2. /\ rx'.chunk = [reg |-> 0, try |-> ring[1].try]
            /\ ring' = <<[reg |-> 0, try |-> ring[1].try]>>
        BY <2>0, <2>10, <4>1 DEF ReadPart, Readers
      <4> QED
        BY <4>2
    <3>4. trouble' >= trouble /\ trouble' # 0 /\ (trouble # 0 => trouble' = 2)
      BY <2>0, <3>1 DEF Troubles
    <3>5. ASSUME trouble = 0, call.at # "idle"
          PROVE  FewBad' /\ FirstOnly' /\ (call.at = "take" => full)
      <4>1. /\ call.try = 1 /\ Len(line) = 0 /\ ring[1].try = 1 /\ ~Got
            /\ call.at = "take" => full
        BY <2>a, <3>1, <3>5 DEF Untroubled, Alone, Nothing, Held, Current, Got, TypeOK
      <4>2. ~GotBad'
        BY <3>1, <4>1 DEF GotBad, Got
      <4>3. FewBad'
        BY <2>c, <3>1, <3>3, <4>1, <4>2, FewEnoughAfter
      <4> QED
        BY <3>1, <3>3, <4>1, <4>3 DEF FirstOnly
    <3> QED
      BY <2>0, <2>a, <3>1, <3>4, <3>5 DEF SurviveInv, Untroubled, Troubled, OneTroubleIsSurvived
  <2>11. CASE SetLength
    <3>1. /\ rx.at = "set" /\ rx'.at = "copy" /\ rx'.chunk = rx.chunk /\ full'
          /\ UNCHANGED <<line, ring>> /\ call' = call
          /\ result' = result /\ trouble' = trouble
      BY <2>0, <2>11 DEF SetLength, Readers
    <3>2. Held /\ Held' /\ Ahead' = Ahead /\ ~Nothing /\ ~GotBad'
      BY <3>1 DEF Held, Ahead, Nothing, GotBad, Got
    <3>3. Alone => Alone'
      BY <3>1, <3>2 DEF Alone, Current
    <3>4. Untroubled'
      BY <2>a, <3>1, <3>2, <3>3 DEF Untroubled
    <3>5. BadLeft' >= BadLeft /\ BadLeft \in Int /\ BadLeft' \in Int
      BY <2>0, <3>1, <3>2 DEF BadLeft
    <3>6. FewBad => FewBad'
      BY <2>0, <3>1, <3>2, <3>5 DEF FewBad, Intact, Ahead
    <3>7. Coming => Coming'
      BY <3>1, <3>2 DEF Coming, Current
    <3>8. FirstOnly => FirstOnly'
      BY <3>1, <3>2 DEF FirstOnly
    <3>9. Troubled'
      BY <2>a, <3>1, <3>6, <3>7, <3>8 DEF Troubled
    <3> QED
      BY <2>a, <3>1, <3>4, <3>9 DEF SurviveInv, OneTroubleIsSurvived
  <2>12. CASE CopyBytes
    <3>1. /\ rx.at = "copy" /\ rx'.at = "out" /\ full' = full
          /\ data' = rx.chunk /\ call' = call
          /\ line' = line /\ ring' = ring /\ result' = result /\ trouble' = trouble
      BY <2>12 DEF CopyBytes
    <3>2. ~Held' /\ (Held <=> full) /\ ~GotBad
      BY <3>1 DEF Held, GotBad, Got
    <3>3. BadLeft = 3 - call.try /\ (~GotBad' => BadLeft' = 3 - call.try)
          /\ (GotBad' => BadLeft' = 2 - call.try)
      BY <2>0, <3>1, <3>2 DEF BadLeft
    <3>4. CASE ~full
      <4>1. trouble = 0 => call.at = "idle"
        BY <2>a, <3>1, <3>4 DEF Untroubled
      <4>2. ~GotBad'
        BY <3>1, <3>4 DEF GotBad, Got
      <4>3. FewBad => FewBad'
        BY <2>0, <2>c, <3>1, <3>2, <3>3, <3>4, <4>2 DEF FewBad, Intact
      <4>4. Coming => Coming'
        BY <3>1, <3>2, <3>4 DEF Coming, Current, Nothing
      <4>5. FirstOnly => FirstOnly'
        BY <3>1, <3>2 DEF FirstOnly
      <4>6. AllGood => AllGood'
        BY <3>1, <3>2 DEF AllGood
      <4> QED
        BY <2>a, <3>1, <4>1, <4>3, <4>4, <4>5, <4>6 DEF SurviveInv, Untroubled, Troubled, OneTroubleIsSurvived
    <3>5. CASE full
      <4>1. Alone => Nothing' /\ Current(data)'
        BY <3>1, <3>2, <3>5 DEF Alone, Nothing, Current
      <4>2. Untroubled'
        BY <2>a, <3>1, <3>2, <3>5, <4>1 DEF Untroubled, Nothing
      <4>3. FewBad => (GotBad' => call'.try < 3)
        <5>1. GotBad' => rx.chunk.reg # call.reg
          BY <3>1 DEF GotBad
        <5> QED
          BY <2>0, <3>1, <3>2, <3>3, <3>5, <5>1 DEF FewBad, Intact
      <4>4. FewBad => FewBad'
        BY <2>0, <2>c, <3>1, <3>2, <3>3, <3>5, <4>3 DEF FewBad, Intact
      <4>5. Coming => Coming'
        BY <3>1, <3>2, <3>5 DEF Coming, Current, Nothing
      <4>6. FirstOnly => FirstOnly'
        BY <3>1, <3>2 DEF FirstOnly
      <4>7. Troubled'
        BY <2>a, <3>1, <3>5, <4>4, <4>5, <4>6 DEF Troubled
      <4> QED
        BY <2>a, <3>1, <4>2, <4>7 DEF SurviveInv, OneTroubleIsSurvived
    <3> QED
      BY <3>4, <3>5
  <2>13. CASE Answer
    <3>1. /\ UNCHANGED <<call, full, data, rx, result, trouble>>
          /\ line # <<>> /\ line' = Tail(line)
          /\ ring' = Append(ring, Head(line))
      BY <2>13 DEF Answer
    <3>2. /\ Len(line) > 0 /\ Len(line') = Len(line) - 1 /\ 1 \in 1..Len(line)
          /\ \A i \in 1..Len(line') : line'[i] = line[i + 1] /\ i + 1 \in 1..Len(line)
          /\ Len(line') > 0 => line'[Len(line')] = line[Len(line)]
      BY <2>0, <3>1
    <3>3. /\ Len(ring') = Len(ring) + 1
          /\ \A i \in 1..Len(ring) : ring'[i] = ring[i]
          /\ ring'[Len(ring')] = line[1]
          /\ \A i \in 1..Len(ring') : i \in 1..Len(ring) \/ i = Len(ring')
      BY <2>0, <3>1
    <3>4. Held' = Held /\ Ahead' = Ahead /\ GotBad' = GotBad /\ BadLeft' = BadLeft
      BY <3>1 DEF Held, Ahead, GotBad, Got, BadLeft
    <3>5. ~Nothing /\ (Alone => Alone')
      BY <2>0, <3>1, <3>2, <3>3, <3>4 DEF Nothing, Alone, Current
    <3>6. Untroubled'
      BY <2>a, <3>1, <3>5 DEF Untroubled
    <3>7. FewBad => FewBad'
      <4> SUFFICES ASSUME FewBad PROVE FewBad'
        OBVIOUS
      <4>1. /\ call.try <= 3 /\ (Held => Intact(1, rx.chunk)) /\ (GotBad => call.try < 3)
            /\ Intact(Ahead + Len(ring) + 1, line[1])
        BY <3>2 DEF FewBad
      <4>2. Ahead' + Len(ring') = Ahead + Len(ring) + 1
        BY <2>0, <2>c, <3>3, <3>4
      <4>3. \A i \in 1..Len(ring') : Ahead + i > BadLeft => ring'[i].reg = call.reg
        BY <2>0, <2>c, <3>3, <4>1 DEF FewBad, Intact
      <4>4. \A i \in 1..Len(line') :
              Ahead' + Len(ring') + i > BadLeft => line'[i].reg = call.reg
        <5> SUFFICES ASSUME NEW i \in 1..Len(line')
                     PROVE  Ahead' + Len(ring') + i > BadLeft => line'[i].reg = call.reg
          OBVIOUS
        <5>1. /\ i \in Nat /\ Ahead \in Nat /\ Ahead' \in Nat
              /\ Len(ring) \in Nat /\ Len(ring') \in Nat
          BY <2>0, <2>c, <3>3
        <5>2. Ahead' + Len(ring') + i = Ahead + Len(ring) + (i + 1)
          BY <4>2, <5>1
        <5> QED
          BY <3>2, <5>2 DEF FewBad, Intact
      <4>5. call'.reg = call.reg /\ call'.try = call.try /\ rx'.chunk = rx.chunk
        BY <3>1
      <4> QED
        BY <3>4, <4>1, <4>3, <4>4, <4>5 DEF FewBad, Intact
    <3>8. Coming => Coming'
      BY <2>0, <3>1, <3>2, <3>3, <3>5 DEF Coming, Current
    <3>9. FirstOnly => FirstOnly'
      BY <3>1, <3>2, <3>3, <3>4 DEF FirstOnly
    <3>10. AllGood => AllGood'
      BY <3>1, <3>2, <3>3, <3>4 DEF AllGood
    <3>11. Troubled'
      BY <2>a, <3>1, <3>7, <3>8, <3>9, <3>10 DEF Troubled
    <3> QED
      BY <2>a, <3>1, <3>6, <3>11 DEF SurviveInv, OneTroubleIsSurvived
  <2>14. CASE Lose
    <3>1. /\ UNCHANGED <<call, full, data, rx, ring, result>>
          /\ line # <<>> /\ line' = Tail(line) /\ Troubles(1)
      BY <2>14 DEF Lose
    <3>2. Len(line) > 0 /\ Len(line') = Len(line) - 1
      BY <2>0, <3>1
    <3>3. trouble' >= trouble /\ trouble' # 0 /\ (trouble # 0 => trouble' = 2)
      BY <2>0, <3>1 DEF Troubles
    <3>4. ASSUME trouble = 0, call.at # "idle"
          PROVE  FewBad' /\ FirstOnly' /\ (call.at = "take" => full)
      <4>1. /\ call.try = 1 /\ ~Held /\ Len(ring) = 0 /\ Len(line) = 1 /\ ~Got
            /\ call.at = "take" => full
        BY <2>a, <3>2, <3>4 DEF Untroubled, Alone, Nothing, Held, Got, TypeOK
      <4>2. /\ ~GotBad' /\ ~Held' /\ Len(ring') = 0 /\ Len(line') = 0
            /\ call'.try = 1
        BY <3>1, <3>2, <4>1 DEF GotBad, Got, Held
      <4>3. FewBad'
        BY <2>c, <4>2, FewEnoughAfter
      <4> QED
        BY <4>1, <4>2, <4>3 DEF FirstOnly
    <3> QED
      BY <2>0, <2>a, <3>1, <3>3, <3>4 DEF SurviveInv, Untroubled, Troubled, OneTroubleIsSurvived
  <2>15. CASE UNCHANGED vars
    <3>1. UNCHANGED <<call, full, data, rx, ring, line, result, trouble>>
      BY <2>15 DEF vars
    <3>2. Held' = Held /\ GotBad' = GotBad
      BY <3>1 DEF Held, GotBad, Got
    <3>3. /\ Ahead' = Ahead /\ Nothing' = Nothing /\ Alone' = Alone
          /\ (Coming \/ FirstOnly) => (Coming \/ FirstOnly)'
          /\ AllGood => AllGood'
          /\ FewBad => FewBad'
      BY <3>1, <3>2, SameView
    <3>4. Untroubled'
      BY <2>a, <3>1, <3>3 DEF Untroubled, Current
    <3>5. Troubled'
      BY <2>a, <3>1, <3>3 DEF Troubled
    <3> QED
      BY <2>a, <3>1, <3>4, <3>5 DEF SurviveInv, OneTroubleIsSurvived
  <2> QED
    BY <2>1, <2>2, <2>3, <2>4, <2>5, <2>6, <2>7, <2>8, <2>9, <2>10, <2>11, <2>12,
       <2>13, <2>14, <2>15 DEF Next, ReadTask, RxTask
<1> QED
  BY <1>1, <1>2, FreshInvariant, PTL DEF Spec, SurviveInv

=============================================================================
