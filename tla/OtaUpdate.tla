----------------------------- MODULE OtaUpdate -----------------------------
(***************************************************************************)
(* The update of the firmware from the device page.  Each request is a     *)
(* connection of its own and the web server takes their events in any      *)
(* order, but what they update is one: a target partition and a handle.    *)
(* Every result of the writing is ignored, and a request that was refused  *)
(* or is cut off is ended like any other.                                  *)
(*                                                                         *)
(* An image has Parts parts.  A part is named after the upload it belongs  *)
(* to; Junk is a part of no image.  The form of the device page has a      *)
(* field before the file, and all it holds is written.  The device may     *)
(* lose its power at any moment.                                           *)
(***************************************************************************)
EXTENDS Integers, Sequences, SequencesExt

CONSTANTS
  Uploads,  \* the connections an upload comes by
  Parts     \* parts of an image

ASSUME OtaAssumption == Parts \in Nat \ {0}

VARIABLES
  boot,          \* the partition that was booted and boots next
  content,       \* what each partition holds from its start
  otaPartition,  \* otaPartition
  open,          \* otaHandle is a handle that esp_ota_end did not release
  pc,            \* each upload: "none", accepted ("open") or "refused"
  file,          \* what it sends: an "image", the "form" with one, or "other"
  sent,          \* its parts that have arrived
  failed,        \* history: the flash failed for it
  alone          \* history: no other upload since it began

flash == <<boot, content>>
session == <<otaPartition, open>>
uploads == <<pc, file, sent, failed, alone>>
vars == <<flash, session, uploads>>

Partitions == {"ota_0", "ota_1"}
None == "NULL"
Junk == <<"junk", 0>>
Field == <<"field", 0>>
Factory == [i \in 1..Parts |-> <<"factory", i>>]

Image(c) == [i \in 1..Parts |-> <<c, i>>]

\* What a request consists of, in the order of its bytes.
Body(c) ==
  CASE file[c] = "image" -> Image(c)
    [] file[c] = "form"  -> <<Field>> \o Image(c)
    [] OTHER             -> [i \in 1..Parts |-> Junk]

\* The images that pass the verification; what follows one is not looked at.
Whole(s) == \E i \in {Factory} \cup {Image(c) : c \in Uploads} : IsPrefix(i, s)

Others(c) == {d \in Uploads \ {c} : pc[d] # "none"}

Init ==
  /\ boot = "ota_0"
  /\ content = [p \in Partitions |-> IF p = "ota_0" THEN Factory ELSE <<>>]
  /\ otaPartition = None /\ open = FALSE
  /\ pc = [c \in Uploads |-> "none"]
  /\ file = [c \in Uploads |-> "other"]
  /\ sent = [c \in Uploads |-> 0]
  /\ failed = [c \in Uploads |-> FALSE]
  /\ alone = [c \in Uploads |-> FALSE]

findNextBootPartition == IF boot = "ota_0" THEN "ota_1" ELSE "ota_0"

-----------------------------------------------------------------------------
\* A request arrives, and the others that are going on are not alone any more.
Arrives(c, state) ==
  /\ pc[c] = "none"
  /\ pc' = [pc EXCEPT ![c] = state]
  /\ file' \in {[file EXCEPT ![c] = f] : f \in {"image", "form", "other"}}
  /\ alone' = [d \in Uploads |-> d = c /\ Others(c) = {}]
  /\ UNCHANGED sent

esp_ota_begin_ok(p) ==
  /\ p # boot
  /\ content' = [content EXCEPT ![p] = <<>>]
  /\ open' = TRUE

\* It may fail before or after the partition was erased; the handle of
\* before stays, and goes on where it was.
esp_ota_begin_fails(p) ==
  /\ \/ UNCHANGED content
     \/ p # boot /\ content' = [content EXCEPT ![p] = [i \in DOMAIN @ |-> Junk]]
  /\ UNCHANGED open

\* Mutant: an update that is in progress is not begun again.
begin_Once(c) ==
  /\ Arrives(c, "open")
  /\ otaPartition' = findNextBootPartition
  /\ IF otaPartition # None
     THEN UNCHANGED <<content, open, failed>>
     ELSE \/ esp_ota_begin_ok(otaPartition') /\ UNCHANGED failed
          \/ esp_ota_begin_fails(otaPartition') /\ failed' = [failed EXCEPT ![c] = TRUE]
  /\ UNCHANGED boot

begin(c) ==
  /\ Arrives(c, "open")
  /\ otaPartition' = findNextBootPartition
  /\ \/ esp_ota_begin_ok(otaPartition') /\ UNCHANGED failed
     \/ esp_ota_begin_fails(otaPartition') /\ failed' = [failed EXCEPT ![c] = TRUE]
  /\ UNCHANGED boot

\* Mutant: the handler goes on after the refusal.
Refuse_NoReturn(c) ==
  /\ Arrives(c, "refused")
  /\ otaPartition' = findNextBootPartition
  /\ esp_ota_begin_ok(otaPartition')
  /\ UNCHANGED <<boot, failed>>

\* handle_ota_update answers at once, but the events of the request go on.
Refuse(c) ==
  /\ Arrives(c, "refused")
  /\ UNCHANGED <<flash, session, failed>>

-----------------------------------------------------------------------------
Piece(c) == Body(c)[sent[c] + 1]

\* The first bytes of an image must have its magic: a text has not, and a file
\* that is no image may.
esp_ota_write_accepts(c) ==
  content[otaPartition] = <<>> => Piece(c) # Field /\ Piece(c)[2] \in {0, 1}

esp_ota_write_refuses(c) ==
  content[otaPartition] = <<>> /\ Piece(c)[2] # 1

\* A piece arrives and is written, the field like the file.  There may be no
\* handle to write it by, or the flash fails, and nobody is told.
writeHexData(c) ==
  /\ pc[c] # "none"
  /\ sent[c] < Len(Body(c))
  /\ sent' = [sent EXCEPT ![c] = @ + 1]
  /\ \/ /\ open /\ esp_ota_write_accepts(c)
        /\ content' = [content EXCEPT ![otaPartition] = Append(@, Piece(c))]
        /\ UNCHANGED failed
     \/ open /\ esp_ota_write_refuses(c) /\ UNCHANGED <<content, failed>>
     \/ /\ open
        /\ failed' = [failed EXCEPT ![c] = TRUE]
        /\ UNCHANGED content
     \/ ~open /\ UNCHANGED <<content, failed>>
  /\ UNCHANGED <<boot, session, pc, file, alone>>

-----------------------------------------------------------------------------
Leaves(c) ==
  /\ pc' = [pc EXCEPT ![c] = "none"]
  /\ file' = [file EXCEPT ![c] = "other"]
  /\ sent' = [sent EXCEPT ![c] = 0]
  /\ failed' = [failed EXCEPT ![c] = FALSE]
  /\ alone' = [alone EXCEPT ![c] = FALSE]

Restarts ==
  /\ otaPartition' = None
  /\ open' = FALSE
  /\ pc' = [c \in Uploads |-> "none"]
  /\ file' = [c \in Uploads |-> "other"]
  /\ sent' = [c \in Uploads |-> 0]
  /\ failed' = [c \in Uploads |-> FALSE]
  /\ alone' = [c \in Uploads |-> FALSE]

\* The request is over, or its connection is: end() is called for both.

EndsNothing(c) ==
  /\ pc[c] # "none"
  /\ otaPartition = None
  /\ Leaves(c)
  /\ UNCHANGED <<flash, session>>

\* Mutant: the handle is not released.
EndFails_KeepsHandle(c) ==
  /\ pc[c] # "none"
  /\ otaPartition # None
  /\ ~(open /\ Whole(content[otaPartition]))
  /\ Leaves(c)
  /\ UNCHANGED <<flash, session>>

\* esp_ota_end releases the handle, and fails when it was released before or
\* what was written is no image.
EndFails(c) ==
  /\ pc[c] # "none"
  /\ otaPartition # None
  /\ ~(open /\ Whole(content[otaPartition]))
  /\ open' = FALSE
  /\ Leaves(c)
  /\ UNCHANGED <<flash, otaPartition>>

EndsWhole(c) ==
  /\ pc[c] # "none"
  /\ otaPartition # None
  /\ open /\ Whole(content[otaPartition])

\* esp_ota_set_boot_partition, and the device restarts.
Activates(c) ==
  /\ EndsWhole(c)
  /\ boot' = otaPartition
  /\ Restarts
  /\ UNCHANGED content

NotActivated(c) ==
  /\ EndsWhole(c)
  /\ otaPartition' = None
  /\ open' = FALSE
  /\ Leaves(c)
  /\ UNCHANGED flash

end(c) == EndsNothing(c) \/ EndFails(c) \/ Activates(c) \/ NotActivated(c)

PowerCut ==
  /\ Restarts
  /\ UNCHANGED flash

Next ==
  \/ \E c \in Uploads : Refuse(c) \/ begin(c) \/ writeHexData(c) \/ end(c)
  \/ PowerCut

Spec == Init /\ [][Next]_vars

-----------------------------------------------------------------------------
\* Every variable has its type; what boots is a whole image and is never the
\* target; and a handle that is open is that of an upload that goes on.
TypeOK ==
  /\ boot \in Partitions
  /\ DOMAIN content = Partitions
  /\ otaPartition \in Partitions \cup {None}
  /\ open \in BOOLEAN
  /\ pc \in [Uploads -> {"none", "open", "refused"}]
  /\ file \in [Uploads -> {"image", "form", "other"}]
  /\ sent \in [Uploads -> 0..Parts + 1]
  /\ failed \in [Uploads -> BOOLEAN]
  /\ alone \in [Uploads -> BOOLEAN]
  /\ Whole(content[boot])
  /\ otaPartition # boot
  /\ open => otaPartition # None /\ \E c \in Uploads : pc[c] # "none"

\* The restart into another partition that the end of an upload causes boots
\* the image this upload has sent, and it was accepted: when no other upload
\* went on beside it, whatever others before it have left.
OwnImageBoots ==
  [][\A c \in Uploads :
       boot' # boot /\ alone[c]
         => pc[c] = "open" /\ content'[boot'] = Image(c)]_vars

\* An upload beside which no other went on, of an image that has come whole,
\* alone or after the field of the form, and was written without an error, is
\* booted when it ends, unless the boot partition cannot be set or the power is
\* cut: what an upload that was refused or cut off before has left does not
\* stand in its way.
WholeUploadBoots ==
  [][\A c \in Uploads :
       /\ alone[c] /\ pc[c] = "open" /\ file[c] # "other"
       /\ sent[c] = Len(Body(c)) /\ ~failed[c]
       /\ pc'[c] = "none"
       => boot' # boot \/ otaPartition' = None]_vars

=============================================================================
