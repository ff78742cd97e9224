------------------------------ MODULE UartCtrl ------------------------------
(***************************************************************************)
(* The reading of the registers of the Cse7761 chip: the measuring task    *)
(* sends a request and polls mLength for the answer, and rx_task copies    *)
(* what the UART received into mData.  The two share mData, mLength and    *)
(* isWaitingData without a lock (the mutex is between senders), and no     *)
(* answer says which request it is for: only the checksum covers the       *)
(* register.                                                               *)
(*                                                                         *)
(* An answer is the number of its register and the try that asked for it;  *)
(* the checksum is taken to find every answer that is damaged or of        *)
(* another register.  The chip may lose a request or answer at any time.   *)
(***************************************************************************)
EXTENDS Integers, Sequences, FiniteSets

CONSTANTS
  Registers,     \* how many registers a round reads, one after the other
  Tries,         \* the 3 of Cse7761Read
  SendCountdown, \* the 10 of sendData
  RxCountdown,   \* the 30 of rx_task
  MaxPending     \* bound: answers under way, the chip loses what is more

ASSUME UartAssumption ==
  /\ Registers \in Nat /\ Registers > 1
  /\ {Tries, SendCountdown, RxCountdown, MaxPending} \subseteq Nat \ {0}

VARIABLES
  call,       \* the measuring task: where it is, register, try, countdown,
              \* and whether it comes after a read that was not answered
  isWaiting,  \* isWaitingData
  full,       \* mLength # 0
  data,       \* mData: an answer, or what is none
  line,       \* the answers the chip has not sent yet
  ring,       \* the answers in the buffer of the UART driver
  rx,         \* rx_task: where it is, its countdown and what it has read
  result,     \* how the last read ended
  trouble     \* history: what has gone wrong in this read, up to 2

shared == <<isWaiting, full, data>>
wire == <<line, ring>>
vars == <<call, shared, wire, rx, result, trouble>>

Garbage == [reg |-> 0, try |-> 0]
Answers == [reg : 0..Registers, try : 0..Tries]

Init ==
  /\ call = [at |-> "idle", reg |-> Registers, try |-> 0, left |-> 0,
             after |-> FALSE]
  /\ isWaiting = FALSE /\ full = FALSE /\ data = Garbage
  /\ line = <<>> /\ ring = <<>>
  /\ rx = [at |-> "out", left |-> 0, chunk |-> Garbage]
  /\ result = "none"
  /\ trouble = 0

Troubles(n) == trouble' = IF trouble + n > 2 THEN 2 ELSE trouble + n

-----------------------------------------------------------------------------
\* The chip and the line.

Answer ==
  /\ line # <<>>
  /\ ring' = Append(ring, Head(line)) /\ line' = Tail(line)
  /\ UNCHANGED <<call, shared, rx, result, trouble>>

Lose ==
  /\ line # <<>>
  /\ line' = Tail(line)
  /\ Troubles(1)
  /\ UNCHANGED <<call, shared, ring, rx, result>>

-----------------------------------------------------------------------------
\* Cse7761Read, Cse7761ReadOnce, sendData: the measuring task.

Old(answers) == [i \in DOMAIN answers |-> [answers[i] EXCEPT !.try = 0]]

\* The next register is read.  What is under way is of an earlier read.
Read ==
  /\ call.at = "idle"
  /\ call' = [call EXCEPT !.at = "write", !.reg = (@ % Registers) + 1, !.try = 1,
                      !.after = result \in {"failed", "stale"}]
  /\ line' = Old(line) /\ ring' = Old(ring)
  /\ rx' = [rx EXCEPT !.chunk.try = 0] /\ data' = [data EXCEPT !.try = 0]
  /\ trouble' = LET n == Len(line) + Len(ring)
                         + (IF rx.at \in {"set", "copy"} THEN 1 ELSE 0)
                IN IF n > 2 THEN 2 ELSE n
  /\ result' = "none"
  /\ UNCHANGED <<isWaiting, full>>

\* The request is written first: its answer may be there before
Write ==
  /\ call.at = "write"
  /\ call' = [call EXCEPT !.at = "clear"]
  /\ IF Len(line) + Len(ring) < MaxPending
     THEN /\ line' = Append(line, [reg |-> call.reg, try |-> call.try])
          /\ UNCHANGED trouble
     ELSE UNCHANGED line /\ Troubles(1)
  /\ UNCHANGED <<shared, ring, rx, result>>

\* the old data are cleared.
Clears ==
  \/ full /\ data.try = call.try
  \/ rx.at = "copy"

Clear ==
  /\ call.at = "clear"
  /\ call' = [call EXCEPT !.at = "wait", !.left = SendCountdown]
  /\ full' = FALSE /\ data' = Garbage
  /\ isWaiting' = TRUE
  /\ IF Clears THEN Troubles(1) ELSE UNCHANGED trouble
  /\ UNCHANGED <<wire, rx, result>>

\* Mutant: the countdown does not count.
WaitHalfSecond_Forever ==
  /\ call.at = "wait" /\ ~full /\ call.left > 0
  /\ ring = <<>> /\ rx.at \notin {"set", "copy"}
  /\ UNCHANGED vars

\* Half a second of waiting, in which rx_task, which looks every 300 ms, has
\* taken what the UART had received.
WaitHalfSecond ==
  /\ call.at = "wait" /\ ~full /\ call.left > 0
  /\ ring = <<>> /\ rx.at \notin {"set", "copy"}
  /\ call' = [call EXCEPT !.left = @ - 1]
  /\ UNCHANGED <<shared, wire, rx, result, trouble>>

\* The answer to this try is still under way.
Late ==
  \/ \E i \in DOMAIN line : line[i].try = call.try
  \/ \E i \in DOMAIN ring : ring[i].try = call.try
  \/ rx.at \in {"set", "copy"} /\ rx.chunk.try = call.try

\* Mutant: rx_task is not told that the wait is over.
Waited_StillWaiting ==
  /\ call.at = "wait" /\ (full \/ call.left = 0)
  /\ call' = [call EXCEPT !.at = "take", !.left = 0]
  /\ IF ~full /\ Late THEN Troubles(1) ELSE UNCHANGED trouble
  /\ UNCHANGED <<isWaiting, full, data, wire, rx, result>>

\* The wait is over, with or without an answer.
Waited ==
  /\ call.at = "wait" /\ (full \/ call.left = 0)
  /\ call' = [call EXCEPT !.at = "take", !.left = 0]
  /\ isWaiting' = FALSE
  /\ IF ~full /\ Late THEN Troubles(1) ELSE UNCHANGED trouble
  /\ UNCHANGED <<full, data, wire, rx, result>>

\* Mutant: the checksum leaves out the register.
Matches_AnyRegister == full /\ data.reg # 0

\* The answer is intact and of the register that was asked for.
Matches == full /\ data.reg = call.reg

Accept ==
  /\ call.at = "take"
  /\ Matches
  /\ call' = [call EXCEPT !.at = "idle"]
  /\ result' = IF data.try = 0 THEN "stale" ELSE "ok"
  /\ UNCHANGED <<shared, wire, rx, trouble>>

\* Mutant: the request is not sent again.
Reject_GivesUp ==
  /\ call.at = "take"
  /\ ~Matches
  /\ call' = [call EXCEPT !.at = "idle"]
  /\ result' = "failed"
  /\ UNCHANGED <<shared, wire, rx, trouble>>

\* The request is sent again, or the read has failed and gives 0.  Nothing
\* keeps rx_task from copying while the bytes are looked at.
Reject ==
  /\ call.at = "take"
  /\ ~Matches
  /\ IF call.try < Tries
     THEN /\ call' = [call EXCEPT !.at = "write", !.try = @ + 1]
          /\ UNCHANGED result
     ELSE /\ call' = [call EXCEPT !.at = "idle"]
          /\ result' = "failed"
  /\ IF full /\ rx.at = "copy" THEN Troubles(1) ELSE UNCHANGED trouble
  /\ UNCHANGED <<shared, wire, rx>>

-----------------------------------------------------------------------------
\* rx_task.

StartReading ==
  /\ rx.at = "out" /\ isWaiting
  /\ rx' = [rx EXCEPT !.at = "in", !.left = RxCountdown]
  /\ UNCHANGED <<call, shared, wire, result, trouble>>

\* uart_read_bytes takes all there is: two answers in one length fit no
\* checksum.
ReadBytes ==
  /\ rx.at = "in" /\ ring # <<>>
  /\ rx' = [rx EXCEPT !.at = "set",
                      !.chunk = IF Len(ring) = 1 THEN Head(ring)
                               ELSE [reg |-> 0, try |-> ring[Len(ring)].try]]
  /\ ring' = <<>>
  /\ Troubles(Len(ring) - 1)
  /\ UNCHANGED <<call, shared, line, result>>

\* The time of uart_read_bytes ends in the middle of an answer.
ReadPart ==
  /\ rx.at = "in" /\ Len(ring) = 1
  /\ rx' = [rx EXCEPT !.at = "set", !.chunk = [ring[1] EXCEPT !.reg = 0]]
  /\ ring' = <<[ring[1] EXCEPT !.reg = 0]>>
  /\ Troubles(1)
  /\ UNCHANGED <<call, shared, line, result>>

ReadNothing ==
  /\ rx.at = "in" /\ ring = <<>>
  /\ rx' = IF rx.left > 1 THEN [rx EXCEPT !.left = @ - 1]
           ELSE [rx EXCEPT !.at = "out", !.left = 0]
  /\ UNCHANGED <<call, shared, wire, result, trouble>>

\* setData: the old bytes are cleared and the length is set before the bytes.
SetLength ==
  /\ rx.at = "set"
  /\ data' = Garbage /\ full' = TRUE
  /\ rx' = [rx EXCEPT !.at = "copy"]
  /\ UNCHANGED <<call, isWaiting, wire, result, trouble>>

CopyBytes ==
  /\ rx.at = "copy"
  /\ data' = rx.chunk
  /\ rx' = [at |-> "out", left |-> 0, chunk |-> Garbage]
  /\ UNCHANGED <<call, isWaiting, full, wire, result, trouble>>

-----------------------------------------------------------------------------
ReadTask ==
  Read \/ Write \/ Clear \/ WaitHalfSecond \/ Waited \/ Accept \/ Reject

RxTask == StartReading \/ ReadBytes \/ ReadPart \/ ReadNothing \/ SetLength \/ CopyBytes

Next == ReadTask \/ RxTask \/ Answer \/ Lose

Spec == Init /\ [][Next]_vars

\* Both tasks are run; of the chip nothing is asked.
FairSpec == Spec /\ WF_vars(ReadTask) /\ WF_vars(RxTask)

-----------------------------------------------------------------------------
\* Every variable has its type.
TypeOK ==
  /\ call \in [at : {"idle", "write", "clear", "wait", "take"}, reg : 1..Registers,
               try : 0..Tries, left : 0..SendCountdown, after : BOOLEAN]
  /\ isWaiting \in BOOLEAN /\ full \in BOOLEAN
  /\ data \in Answers
  /\ line \in Seq(Answers) /\ ring \in Seq(Answers)
  /\ rx \in [at : {"out", "in", "set", "copy"}, left : 0..RxCountdown,
             chunk : Answers]
  /\ result \in {"none", "ok", "stale", "failed"}
  /\ trouble \in 0..2
  /\ isWaiting <=> call.at = "wait"

\* One thing that goes wrong does not make a read fail: an answer that is lost,
\* late, left over from the read before, cut in two, joined to another one,
\* overwritten by the clearing or taken while it is copied.  This is what
\* "Retry up to three times" of Cse7761Read is for.
OneTroubleIsSurvived == result = "failed" => trouble > 1

\* A read gives what the chip has answered to this read, not what it had been
\* asked in an earlier round, unless the read before it had not been answered
\* properly either: whatever else goes wrong in this read or the one before.
AnswerIsFresh == result = "stale" => call.after

\* A read ends, whatever the chip does.
ReadEnds == call.at = "write" ~> call.at = "idle"

=============================================================================
