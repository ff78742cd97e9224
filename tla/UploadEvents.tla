---------------------------- MODULE UploadEvents ----------------------------
(***************************************************************************)
(* What Mongoose promises the handler of a multipart request: it is told   *)
(* of the request, then of each part its beginning, its data in portions   *)
(* and its end, and then of the end of the request.  When the connection   *)
(* is gone a part and the request are ended all the same, with an error.   *)
(* Nothing is told twice, and nothing after the end.                       *)
(*                                                                         *)
(* This is the order in which OtaUpdate takes the events of an upload.     *)
(***************************************************************************)
EXTENDS Integers, Sequences, SequencesExt

CONSTANT Messages  \* the sequences of parts that may be sent

VARIABLES
  parts,  \* the parts of the request, each with a name and data
  phase,  \* what the handler was told last
  part,   \* the number of parts that have begun
  name,   \* the name of the part it was given
  got     \* the data of the part it was given

vars == <<parts, phase, part, name, got>>

Init ==
  /\ parts \in Messages
  /\ phase = "idle" /\ part = 0 /\ name = "none" /\ got = <<>>

Request ==
  /\ phase = "idle"
  /\ phase' = "between"
  /\ UNCHANGED <<parts, part, name, got>>

PartBegin ==
  /\ phase = "between" /\ part < Len(parts)
  /\ phase' = "part"
  /\ part' = part + 1
  /\ name' = parts[part + 1].name /\ got' = <<>>
  /\ UNCHANGED parts

\* Any portion of what is next, even none.
PartData ==
  /\ phase = "part"
  /\ \E n \in Len(got)..Len(parts[part].data) : got' = SubSeq(parts[part].data, 1, n)
  /\ UNCHANGED <<parts, phase, part, name>>

PartEnd ==
  /\ phase = "part" /\ got = parts[part].data
  /\ phase' = "between"
  /\ UNCHANGED <<parts, part, name, got>>

RequestEnd ==
  /\ phase = "between" /\ part = Len(parts)
  /\ phase' = "ended"
  /\ UNCHANGED <<parts, part, name, got>>

\* The ends that tell of the lost connection, that of a part even when none
\* has begun.
PartLost ==
  /\ phase \in {"between", "part"}
  /\ phase' = "lost"
  /\ UNCHANGED <<parts, part, name, got>>

RequestLost ==
  /\ phase = "lost"
  /\ phase' = "aborted"
  /\ UNCHANGED <<parts, part, name, got>>

Next ==
  \/ Request \/ PartBegin \/ PartData \/ PartEnd \/ RequestEnd
  \/ PartLost \/ RequestLost

Spec == Init /\ [][Next]_vars
=============================================================================
