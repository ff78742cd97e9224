--------------------------- MODULE OtaUpdateProofs ---------------------------
(***************************************************************************)
(* Theorems of OtaUpdate for any number of uploads and images of any       *)
(* length: what boots is whole, and an upload alone boots its own image.   *)
(***************************************************************************)
EXTENDS OtaUpdate, TLAPS

\* An image is a sequence of its parts, and every image is whole.
LEMMA Images ==
  ASSUME NEW c \in Uploads
  PROVE  Image(c) \in Seq({<<c, i>> : i \in 1..Parts}) /\ Len(Image(c)) = Parts
BY OtaAssumption DEF Image

LEMMA FactoryIsWhole == Whole(Factory)
<1>1. Factory \in Seq({<<"factory", i>> : i \in 1..Parts}) /\ Len(Factory) = Parts
  BY OtaAssumption DEF Factory
<1>2. IsPrefix(Factory, Factory)
  BY <1>1, OtaAssumption DEF IsPrefix
<1> QED
  BY <1>2 DEF Whole

\* A body by its kind.
LEMMA Bodies ==
  ASSUME NEW c \in Uploads, file[c] \in {"image", "form", "other"}
  PROVE  /\ file[c] = "image" => Body(c) = Image(c)
         /\ file[c] = "form" => Body(c) = <<Field>> \o Image(c)
         /\ file[c] = "other" => Body(c) = [i \in 1..Parts |-> Junk]
BY DEF Body

LEMMA BodyLength ==
  ASSUME NEW c \in Uploads, file[c] \in {"image", "form", "other"}
  PROVE  Len(Body(c)) = IF file[c] = "form" THEN Parts + 1 ELSE Parts
<1> USE OtaAssumption
<1>1. CASE file[c] = "image"
  BY <1>1, Bodies, Images
<1>2. CASE file[c] = "form"
  <2>1. Body(c) = <<Field>> \o Image(c)
    BY <1>2, Bodies
  <2>2. Image(c) \in Seq({<<c, i>> : i \in 1..Parts} \cup {Field}) /\ Len(Image(c)) = Parts
    BY DEF Image
  <2>3. <<Field>> \in Seq({<<c, i>> : i \in 1..Parts} \cup {Field}) /\ Len(<<Field>>) = 1
    OBVIOUS
  <2> QED
    BY <1>2, <2>1, <2>2, <2>3
<1>3. CASE file[c] = "other"
  BY <1>3, Bodies
<1> QED
  BY <1>1, <1>2, <1>3

-----------------------------------------------------------------------------
\* What an upload that arrives, leaves or is swept away by a restart does to
\* the types of what is kept for each upload.
UploadsOK ==
  /\ pc \in [Uploads -> {"none", "open", "refused"}]
  /\ file \in [Uploads -> {"image", "form", "other"}]
  /\ sent \in [Uploads -> 0..Parts + 1]
  /\ failed \in [Uploads -> BOOLEAN]
  /\ alone \in [Uploads -> BOOLEAN]

LEMMA ArrivesOK ==
  ASSUME UploadsOK, NEW c \in Uploads, NEW state \in {"open", "refused"}, Arrives(c, state),
         failed' \in [Uploads -> BOOLEAN]
  PROVE  UploadsOK' /\ pc'[c] = state
<1>1. alone' \in [Uploads -> BOOLEAN]
  <2>1. alone' = [d \in Uploads |-> d = c /\ Others(c) = {}]
    BY DEF Arrives
  <2> QED
    BY <2>1, Zenon
<1> QED
  BY <1>1 DEF Arrives, UploadsOK

LEMMA LeavesOK ==
  ASSUME UploadsOK, NEW c \in Uploads, Leaves(c)
  PROVE  UploadsOK'
BY OtaAssumption DEF Leaves, UploadsOK

LEMMA RestartsOK ==
  ASSUME Restarts
  PROVE  UploadsOK' /\ otaPartition' = None /\ open' = FALSE
BY OtaAssumption DEF Restarts, UploadsOK

\* What boots, and what the handle and the target are.
FlashOK ==
  /\ boot \in Partitions
  /\ DOMAIN content = Partitions
  /\ otaPartition \in Partitions \cup {None}
  /\ open \in BOOLEAN
  /\ Whole(content[boot])
  /\ otaPartition # boot
  /\ open => otaPartition # None /\ \E c \in Uploads : pc[c] # "none"

LEMMA TypeParts == (TypeOK <=> UploadsOK /\ FlashOK) /\ (TypeOK' <=> UploadsOK' /\ FlashOK')
BY Zenon DEF TypeOK, UploadsOK, FlashOK

\* Every reachable state has its types; above all, what boots is whole and is
\* never the target.
THEOREM TypeInvariant == Spec => []TypeOK
<1> USE OtaAssumption
<1>1. Init => TypeOK
  <2> SUFFICES ASSUME Init PROVE TypeOK
    OBVIOUS
  <2>1. UploadsOK
    BY DEF Init, UploadsOK
  <2>2. content[boot] = Factory /\ boot \in Partitions /\ DOMAIN content = Partitions
    BY DEF Init, Partitions
  <2>3. otaPartition = None /\ otaPartition # boot /\ open = FALSE
    BY DEF Init, None
  <2> QED
    BY <2>1, <2>2, <2>3, FactoryIsWhole, TypeParts DEF FlashOK
<1>2. TypeOK /\ [Next]_vars => TypeOK'
  <2> SUFFICES ASSUME TypeOK, [Next]_vars
               PROVE  TypeOK'
    OBVIOUS
  <2> USE DEF Partitions, None
  <2>0. UploadsOK /\ FlashOK
    BY TypeParts
  <2> SUFFICES UploadsOK' /\ FlashOK'
    BY TypeParts
  <2>1. ASSUME NEW c \in Uploads, Refuse(c)
        PROVE  UploadsOK' /\ FlashOK'
    <3>1. UploadsOK' /\ pc'[c] = "refused"
      BY <2>0, <2>1, ArrivesOK DEF Refuse, UploadsOK
    <3>2. UNCHANGED <<boot, content, otaPartition, open>>
      BY <2>1 DEF Refuse, flash, session
    <3> QED
      BY <2>0, <3>1, <3>2 DEF FlashOK, Whole
  <2>2. ASSUME NEW c \in Uploads, begin(c)
        PROVE  UploadsOK' /\ FlashOK'
    <3>1. failed' \in [Uploads -> BOOLEAN]
      BY <2>0, <2>2 DEF begin, UploadsOK
    <3>2. UploadsOK' /\ pc'[c] = "open"
      BY <2>0, <2>2, <3>1, ArrivesOK DEF begin
    <3>3. otaPartition' \in Partitions /\ otaPartition' # boot /\ boot' = boot
      BY <2>0, <2>2 DEF begin, findNextBootPartition, FlashOK
    <3>4. /\ DOMAIN content' = Partitions /\ content'[boot] = content[boot]
          /\ open' \in BOOLEAN
      BY <2>0, <2>2, <3>3 DEF begin, esp_ota_begin_ok, esp_ota_begin_fails, FlashOK
    <3>5. Whole(content'[boot])
      BY <2>0, <3>4 DEF FlashOK
    <3>6. Whole(content[boot])'
      BY <3>3, <3>5 DEF Whole
    <3> QED
      BY <3>2, <3>3, <3>4, <3>6, <2>0 DEF FlashOK
  <2>3. ASSUME NEW c \in Uploads, writeHexData(c)
        PROVE  UploadsOK' /\ FlashOK'
    <3>1. sent' \in [Uploads -> 0..Parts + 1]
      <4>1. file[c] \in {"image", "form", "other"} /\ sent[c] \in 0..Parts + 1
        BY <2>0 DEF UploadsOK
      <4>2. sent[c] < Len(Body(c)) /\ Len(Body(c)) <= Parts + 1
        BY <2>3, <4>1, BodyLength DEF writeHexData
      <4>3. sent[c] + 1 \in 0..Parts + 1
        BY <4>1, <4>2, BodyLength
      <4> QED
        BY <2>0, <2>3, <4>3 DEF writeHexData, UploadsOK
    <3>2. failed' \in [Uploads -> BOOLEAN]
      BY <2>0, <2>3 DEF writeHexData, UploadsOK
    <3>3. UNCHANGED <<boot, otaPartition, open, pc, file, alone>>
      BY <2>3 DEF writeHexData, session
    <3>4. UploadsOK'
      BY <2>0, <3>1, <3>2, <3>3 DEF UploadsOK
    <3>5. DOMAIN content' = Partitions /\ content'[boot] = content[boot]
      BY <2>0, <2>3 DEF writeHexData, FlashOK
    <3>6. Whole(content[boot])'
      BY <2>0, <3>3, <3>5 DEF FlashOK, Whole
    <3> QED
      BY <2>0, <3>3, <3>4, <3>5, <3>6 DEF FlashOK
  <2>4. ASSUME NEW c \in Uploads, end(c)
        PROVE  UploadsOK' /\ FlashOK'
    <3>1. CASE EndsNothing(c)
      <4>1. UNCHANGED <<boot, content, otaPartition, open>> /\ otaPartition = None
        BY <3>1 DEF EndsNothing, flash, session
      <4>2. UploadsOK'
        BY <2>0, <3>1, LeavesOK DEF EndsNothing
      <4>3. ~open'
        BY <2>0, <4>1 DEF FlashOK
      <4> QED
        BY <2>0, <4>1, <4>2, <4>3 DEF FlashOK, Whole
    <3>2. CASE EndFails(c)
      <4>1. UNCHANGED <<boot, content, otaPartition>> /\ open' = FALSE
        BY <3>2 DEF EndFails, flash
      <4>2. UploadsOK'
        BY <2>0, <3>2, LeavesOK DEF EndFails
      <4> QED
        BY <2>0, <4>1, <4>2 DEF FlashOK, Whole
    <3>3. CASE Activates(c)
      <4>1. boot' = otaPartition /\ content' = content /\ boot' \in Partitions
        BY <2>0, <3>3 DEF Activates, EndsWhole, FlashOK
      <4>2. Whole(content[otaPartition])
        BY <3>3 DEF Activates, EndsWhole
      <4>3. Whole(content[boot])'
        BY <4>1, <4>2 DEF Whole
      <4>4. UploadsOK' /\ otaPartition' = None /\ open' = FALSE
        BY <3>3, RestartsOK DEF Activates
      <4> QED
        BY <2>0, <4>1, <4>3, <4>4 DEF FlashOK
    <3>4. CASE NotActivated(c)
      <4>1. UNCHANGED <<boot, content>> /\ otaPartition' = None /\ open' = FALSE
        BY <3>4 DEF NotActivated, flash
      <4>2. UploadsOK'
        BY <2>0, <3>4, LeavesOK DEF NotActivated
      <4> QED
        BY <2>0, <4>1, <4>2 DEF FlashOK, Whole
    <3> QED
      BY <2>4, <3>1, <3>2, <3>3, <3>4 DEF end
  <2>5. CASE PowerCut
    <3>1. UNCHANGED <<boot, content>>
      BY <2>5 DEF PowerCut, flash
    <3>2. UploadsOK' /\ otaPartition' = None /\ open' = FALSE
      BY <2>5, RestartsOK DEF PowerCut
    <3> QED
      BY <2>0, <3>1, <3>2 DEF FlashOK, Whole
  <2>6. CASE UNCHANGED vars
    <3>1. UNCHANGED <<boot, content, otaPartition, open, pc, file, sent, failed, alone>>
      BY <2>6 DEF vars, flash, session, uploads
    <3> QED
      BY <2>0, <3>1 DEF UploadsOK, FlashOK, Whole
  <2> QED
    BY <2>1, <2>2, <2>3, <2>4, <2>5, <2>6 DEF Next
<1> QED
  BY <1>1, <1>2, PTL DEF Spec

-----------------------------------------------------------------------------
\* What an upload may put into the target: its own parts, and junk.
Pieces(c) == {<<c, i>> : i \in 1..Parts} \cup {Junk}

\* An upload that is alone and under way with an open handle was accepted, and
\* what the target holds is of its own pieces, no more than have arrived and
\* without the field of a form.
OwnContent(c) ==
  /\ pc[c] = "open"
  /\ content[otaPartition] \in Seq(Pieces(c))
  /\ Len(content[otaPartition]) <=
       IF file[c] = "form" /\ sent[c] > 0 THEN sent[c] - 1 ELSE sent[c]

AloneInv ==
  \A c \in Uploads : alone[c] =>
    /\ pc[c] # "none" /\ Others(c) = {}
    /\ open => OwnContent(c)

\* An upload sends no more than its body, and one that is not there nothing.
Size(c) == IF file[c] = "form" THEN Parts + 1 ELSE Parts

SentInv == \A c \in Uploads : sent[c] <= Size(c) /\ (pc[c] = "none" => sent[c] = 0)

\* A whole image that is made of the pieces of an upload, and is no longer than
\* an image, is the one of that upload.
LEMMA WholeIsOwn ==
  ASSUME NEW c \in Uploads, NEW s \in Seq(Pieces(c)), Len(s) <= Parts, Whole(s)
  PROVE  s = Image(c)
<1> USE OtaAssumption
<1>1. PICK x : \E i \in {[k \in 1..Parts |-> <<x, k>>]} : IsPrefix(i, s)
  BY DEF Whole, Factory, Image
<1> DEFINE image == [k \in 1..Parts |-> <<x, k>>]
<1>2. image \in Seq({<<x, k>> : k \in 1..Parts}) /\ Len(image) = Parts
  OBVIOUS
<1>3. IsPrefix(image, s)
  BY <1>1
<1>4. Len(s) = Parts
  BY <1>2, <1>3 DEF IsPrefix
<1>5. \A k \in 1..Parts : s[k] = <<x, k>>
  <2> TAKE k \in 1..Parts
  <2>1. SubSeq(image, 1, Parts) = SubSeq(s, 1, Parts)
    BY <1>2, <1>3 DEF IsPrefix
  <2>2. SubSeq(image, 1, Parts)[k] = image[k]
    BY <1>2
  <2>3. SubSeq(s, 1, Parts)[k] = s[k]
    BY <1>4
  <2> QED
    BY <2>1, <2>2, <2>3
<1>6. x = c
  <2>1. s[1] \in Pieces(c)
    BY <1>4
  <2>2. s[1] = <<x, 1>>
    BY <1>5
  <2>3. <<x, 1>> # Junk
    BY DEF Junk
  <2> QED
    BY <2>1, <2>2, <2>3 DEF Pieces
<1>7. s = [k \in 1..Parts |-> s[k]]
  BY <1>4
<1> QED
  BY <1>5, <1>6, <1>7 DEF Image

\* The piece that comes next is the upload's own, junk, or the field of a form,
\* which comes first.
LEMMA NextPiece ==
  ASSUME UploadsOK, NEW c \in Uploads, sent[c] < Len(Body(c))
  PROVE  IF file[c] = "form" /\ sent[c] = 0 THEN Piece(c) = Field ELSE Piece(c) \in Pieces(c)
<1> USE OtaAssumption
<1>1. file[c] \in {"image", "form", "other"} /\ sent[c] \in Nat
  BY DEF UploadsOK
<1>2. Len(Body(c)) = IF file[c] = "form" THEN Parts + 1 ELSE Parts
  BY <1>1, BodyLength
<1>3. CASE file[c] = "image"
  <2>1. Piece(c) = Image(c)[sent[c] + 1]
    BY <1>1, <1>3, Bodies DEF Piece
  <2> QED
    BY <1>1, <1>2, <1>3, <2>1 DEF Image, Pieces
<1>4. CASE file[c] = "other"
  <2>1. Piece(c) = [i \in 1..Parts |-> Junk][sent[c] + 1]
    BY <1>1, <1>4, Bodies DEF Piece
  <2> QED
    BY <1>1, <1>2, <1>4, <2>1 DEF Pieces
<1>5. CASE file[c] = "form"
  <2>1. Piece(c) = (<<Field>> \o Image(c))[sent[c] + 1]
    BY <1>1, <1>5, Bodies DEF Piece
  <2>2. Image(c) \in Seq(Pieces(c) \cup {Field}) /\ Len(Image(c)) = Parts
    BY DEF Image, Pieces
  <2>3. <<Field>> \in Seq(Pieces(c) \cup {Field}) /\ Len(<<Field>>) = 1
    OBVIOUS
  <2>4. CASE sent[c] = 0
    BY <1>5, <2>1, <2>2, <2>3, <2>4
  <2>5. CASE sent[c] > 0
    <3>1. Piece(c) = Image(c)[sent[c]]
      BY <1>1, <1>2, <1>5, <2>1, <2>2, <2>3, <2>5
    <3> QED
      BY <1>1, <1>2, <1>5, <2>5, <3>1 DEF Image, Pieces
  <2> QED
    BY <1>1, <2>4, <2>5
<1> QED
  BY <1>1, <1>3, <1>4, <1>5

\* An upload that is alone is the only one that does anything.
LEMMA AloneActs ==
  ASSUME AloneInv, NEW c \in Uploads, alone[c], NEW d \in Uploads, pc[d] # "none"
  PROVE  d = c
BY DEF AloneInv, Others

THEOREM SentInvariant == Spec => []SentInv
<1> USE OtaAssumption
<1>1. Init => SentInv
  BY DEF Init, SentInv, Size
<1>2. TypeOK /\ SentInv /\ [Next]_vars => SentInv'
  <2> SUFFICES ASSUME TypeOK, SentInv, [Next]_vars
               PROVE  SentInv'
    OBVIOUS
  <2>0. UploadsOK
    BY TypeParts
  <2> USE DEF SentInv, Size
  <2>1. ASSUME NEW c \in Uploads, NEW state \in {"open", "refused"}, Arrives(c, state)
        PROVE  SentInv'
    BY <2>0, <2>1 DEF Arrives, UploadsOK
  <2>2. ASSUME NEW c \in Uploads, writeHexData(c)
        PROVE  SentInv'
    <3>1. file[c] \in {"image", "form", "other"}
      BY <2>0 DEF UploadsOK
    <3>2. Len(Body(c)) = Size(c)
      BY <3>1, BodyLength
    <3>3. sent[c] < Len(Body(c)) /\ pc[c] # "none"
      BY <2>2 DEF writeHexData
    <3>4. sent' = [sent EXCEPT ![c] = @ + 1] /\ pc' = pc /\ file' = file
      BY <2>2 DEF writeHexData
    <3>5. sent[c] < Size(c)
      BY <3>2, <3>3
    <3> QED
      BY <2>0, <3>3, <3>4, <3>5 DEF UploadsOK
  <2>3. ASSUME NEW c \in Uploads, Leaves(c)
        PROVE  SentInv'
    BY <2>0, <2>3 DEF Leaves, UploadsOK
  <2>4. CASE Restarts
    BY <2>4 DEF Restarts
  <2>5. CASE UNCHANGED vars
    BY <2>5 DEF vars, uploads
  <2> QED
    BY <2>1, <2>2, <2>3, <2>4, <2>5
       DEF Next, Refuse, begin, end, EndsNothing, EndFails, Activates, NotActivated, PowerCut
<1> QED
  BY <1>1, <1>2, TypeInvariant, PTL DEF Spec

THEOREM AloneInvariant == Spec => []AloneInv
<1> USE OtaAssumption
<1>1. Init => AloneInv
  BY DEF Init, AloneInv
<1>2. TypeOK /\ SentInv /\ AloneInv /\ [Next]_vars => AloneInv'
  <2> SUFFICES ASSUME TypeOK, SentInv, AloneInv, [Next]_vars
               PROVE  AloneInv'
    OBVIOUS
  <2>0. UploadsOK /\ FlashOK
    BY TypeParts
  <2>1. ASSUME NEW c \in Uploads, NEW state \in {"open", "refused"}, Arrives(c, state),
               Others(c) = {} /\ open' => state = "open" /\ content'[otaPartition'] = <<>>
        PROVE  AloneInv'
    <3>1. pc[c] = "none" /\ pc' = [pc EXCEPT ![c] = state] /\ sent' = sent
      BY <2>1 DEF Arrives
    <3>2. \A d \in Uploads : alone'[d] => d = c /\ Others(c) = {}
      BY <2>1 DEF Arrives
    <3>3. SUFFICES ASSUME alone'[c], Others(c) = {}
                   PROVE  /\ pc'[c] # "none" /\ Others(c)' = {}
                          /\ open' => OwnContent(c)'
      BY <3>2 DEF AloneInv
    <3>4. pc'[c] = state
      BY <2>0, <3>1 DEF UploadsOK
    <3>5. Others(c)' = {}
      BY <3>1, <3>3 DEF Others
    <3>6. ASSUME open' PROVE OwnContent(c)'
      <4>1. content'[otaPartition'] = <<>> /\ state = "open"
        BY <2>1, <3>3, <3>6
      <4>2. sent'[c] = 0
        BY <3>1 DEF SentInv
      <4> QED
        BY <3>4, <4>1, <4>2 DEF OwnContent
    <3> QED
      BY <3>4, <3>5, <3>6
  <2>2. ASSUME NEW c \in Uploads, Refuse(c)
        PROVE  AloneInv'
    <3>1. Arrives(c, "refused") /\ open' = open /\ pc[c] = "none"
      BY <2>2 DEF Refuse, session, Arrives
    <3>2. Others(c) = {} => ~open
      BY <2>0, <3>1 DEF FlashOK, Others
    <3> QED
      BY <2>1, <3>1, <3>2
  <2>3. ASSUME NEW c \in Uploads, begin(c)
        PROVE  AloneInv'
    <3>1. Arrives(c, "open") /\ pc[c] = "none"
      BY <2>3 DEF begin, Arrives
    <3>2. Others(c) = {} => ~open
      BY <2>0, <3>1 DEF FlashOK, Others
    <3>3. otaPartition' \in Partitions /\ DOMAIN content = Partitions
      BY <2>0, <2>3 DEF begin, findNextBootPartition, Partitions, FlashOK
    <3>4. Others(c) = {} /\ open' => content'[otaPartition'] = <<>>
      BY <2>3, <3>2, <3>3 DEF begin, esp_ota_begin_ok, esp_ota_begin_fails
    <3> QED
      BY <2>1, <3>1, <3>4
  <2>4. ASSUME NEW c \in Uploads, writeHexData(c)
        PROVE  AloneInv'
    <3>1. /\ UNCHANGED <<otaPartition, open, pc, file, alone>>
          /\ sent' = [sent EXCEPT ![c] = @ + 1]
          /\ pc[c] # "none" /\ sent[c] < Len(Body(c))
      BY <2>4 DEF writeHexData, session
    <3>2. SUFFICES ASSUME alone[c], open PROVE OwnContent(c)'
      <4>1. \A d \in Uploads : alone[d] => d = c
        BY <3>1, AloneActs
      <4>2. \A d \in Uploads : Others(d)' = Others(d)
        BY <3>1 DEF Others
      <4> QED
        BY <3>1, <4>1, <4>2 DEF AloneInv
    <3>3. OwnContent(c)
      BY <3>2 DEF AloneInv
    <3>4. sent[c] \in Nat /\ sent'[c] = sent[c] + 1
      BY <2>0, <3>1 DEF UploadsOK
    <3>5. CASE content' = content
      BY <3>1, <3>3, <3>4, <3>5 DEF OwnContent
    <3>6. CASE /\ esp_ota_write_accepts(c)
               /\ content' = [content EXCEPT ![otaPartition] = Append(@, Piece(c))]
      <4>1. content'[otaPartition] = Append(content[otaPartition], Piece(c))
        BY <2>0, <3>2, <3>6 DEF FlashOK
      <4>2. ~(file[c] = "form" /\ sent[c] = 0)
        <5> SUFFICES ASSUME file[c] = "form", sent[c] = 0 PROVE FALSE
          OBVIOUS
        <5>1. Piece(c) = Field
          BY <2>0, <3>1, NextPiece
        <5>2. content[otaPartition] = <<>>
          BY <3>3 DEF OwnContent
        <5> QED
          BY <3>6, <5>1, <5>2 DEF esp_ota_write_accepts
      <4>3. Piece(c) \in Pieces(c)
        BY <2>0, <3>1, <4>2, NextPiece
      <4>4. /\ content'[otaPartition] \in Seq(Pieces(c))
            /\ Len(content'[otaPartition]) = Len(content[otaPartition]) + 1
        BY <3>3, <4>1, <4>3 DEF OwnContent
      <4>5. Len(content[otaPartition]) \in Nat
        BY <3>3 DEF OwnContent
      <4> QED
        BY <3>1, <3>3, <3>4, <4>2, <4>4, <4>5 DEF OwnContent, Pieces
    <3> QED
      BY <2>4, <3>5, <3>6 DEF writeHexData
  <2>5. ASSUME NEW c \in Uploads, Leaves(c), pc[c] # "none"
        PROVE  AloneInv'
    <3>1. \A d \in Uploads : alone[d] => d = c
      BY <2>5, AloneActs
    <3>2. \A d \in Uploads : ~alone'[d]
      BY <2>0, <2>5, <3>1 DEF Leaves, UploadsOK
    <3> QED
      BY <3>2 DEF AloneInv
  <2>6. CASE Restarts
    BY <2>6 DEF Restarts, AloneInv
  <2>7. CASE UNCHANGED vars
    <3>1. UNCHANGED <<content, otaPartition, open, pc, file, sent, alone>>
      BY <2>7 DEF vars, flash, session, uploads
    <3>2. \A c \in Uploads : Others(c)' = Others(c) /\ (OwnContent(c)' <=> OwnContent(c))
      BY <3>1 DEF Others, OwnContent, Pieces
    <3> QED
      BY <3>1, <3>2 DEF AloneInv
  <2> QED
    BY <2>2, <2>3, <2>4, <2>5, <2>6, <2>7
       DEF Next, end, EndsNothing, EndFails, EndsWhole, Activates, NotActivated, PowerCut
<1> QED
  BY <1>1, <1>2, TypeInvariant, SentInvariant, PTL DEF Spec

\* What an upload boots that no other went on beside is the image it has sent,
\* and it was accepted: for any number of uploads before it, of whatever they
\* left, and for images of any length.
THEOREM OwnImage == Spec => OwnImageBoots
<1> USE OtaAssumption
<1> DEFINE Own(c) == boot' # boot /\ alone[c] => pc[c] = "open" /\ content'[boot'] = Image(c)
<1>1. TypeOK /\ SentInv /\ AloneInv /\ [Next]_vars => [\A c \in Uploads : Own(c)]_vars
  <2> SUFFICES ASSUME TypeOK, SentInv, AloneInv, Next, NEW c \in Uploads, boot' # boot, alone[c]
               PROVE  pc[c] = "open" /\ content'[boot'] = Image(c)
    OBVIOUS
  <2>0. UploadsOK /\ FlashOK
    BY TypeParts
  <2>1. PICK d \in Uploads : Activates(d)
    BY DEF Next, Refuse, begin, writeHexData, end, EndsNothing, EndFails, NotActivated,
           PowerCut, flash
  <2>2. pc[d] # "none" /\ open /\ Whole(content[otaPartition])
        /\ boot' = otaPartition /\ content' = content
    BY <2>1 DEF Activates, EndsWhole
  <2>3. OwnContent(c)
    BY <2>2 DEF AloneInv
  <2>4. sent[c] \in Nat /\ sent[c] <= Size(c) /\ Len(content[otaPartition]) \in Nat
    BY <2>0, <2>3 DEF UploadsOK, SentInv, OwnContent
  <2>5. Len(content[otaPartition]) <= Parts
    BY <2>3, <2>4 DEF OwnContent, Size
  <2> QED
    BY <2>2, <2>3, <2>5, WholeIsOwn DEF OwnContent
<1> QED
  BY <1>1, TypeInvariant, SentInvariant, AloneInvariant, PTL DEF Spec, OwnImageBoots

-----------------------------------------------------------------------------
\* How much of its image has come: the field of a form goes before it.
Kept(c) == IF file[c] = "form" /\ sent[c] > 0 THEN sent[c] - 1 ELSE sent[c]

\* An accepted upload of an image that is alone and for which the flash has not
\* failed has the handle, and the target holds what has come of the image.
WrittenInv ==
  \A c \in Uploads :
    alone[c] /\ pc[c] = "open" /\ file[c] # "other" /\ ~failed[c] =>
      open /\ content[otaPartition] = SubSeq(Image(c), 1, Kept(c))

LEMMA PrefixOfImage ==
  ASSUME NEW c \in Uploads, NEW n \in 0..Parts
  PROVE  /\ SubSeq(Image(c), 1, n) = [k \in 1..n |-> <<c, k>>]
         /\ SubSeq(Image(c), 1, n) = <<>> => n = 0
         /\ n < Parts => SubSeq(Image(c), 1, n + 1) = Append(SubSeq(Image(c), 1, n), <<c, n + 1>>)
<1> USE OtaAssumption
<1>1. \A m \in 0..Parts : SubSeq(Image(c), 1, m) = [k \in 1..m |-> <<c, k>>]
  BY DEF Image
<1>2. SubSeq(Image(c), 1, n) = <<>> => n = 0
  <2>1. Len(SubSeq(Image(c), 1, n)) = n
    BY Images
  <2> QED
    BY <2>1
<1>3. ASSUME n < Parts
      PROVE  [k \in 1..n+1 |-> <<c, k>>] = Append([k \in 1..n |-> <<c, k>>], <<c, n + 1>>)
  OBVIOUS
<1>4. n < Parts => n + 1 \in 0..Parts
  OBVIOUS
<1> QED
  BY <1>1, <1>2, <1>3, <1>4

\* The piece of an image that comes next.
LEMMA NextOfImage ==
  ASSUME UploadsOK, SentInv, NEW c \in Uploads, file[c] # "other", sent[c] < Len(Body(c))
  PROVE  IF file[c] = "form" /\ sent[c] = 0
         THEN Piece(c) = Field
         ELSE Piece(c) = <<c, Kept(c) + 1>> /\ Kept(c) \in 0..Parts - 1
<1> USE OtaAssumption DEF Kept
<1>1. file[c] \in {"image", "form"} /\ sent[c] \in Nat
  BY DEF UploadsOK
<1>2. Len(Body(c)) = IF file[c] = "form" THEN Parts + 1 ELSE Parts
  BY <1>1, BodyLength
<1>3. CASE file[c] = "image"
  <2>1. Piece(c) = Image(c)[sent[c] + 1]
    BY <1>1, <1>3, Bodies DEF Piece
  <2> QED
    BY <1>1, <1>2, <1>3, <2>1 DEF Image
<1>4. CASE file[c] = "form" /\ sent[c] = 0
  BY <1>4, NextPiece
<1>5. CASE file[c] = "form" /\ sent[c] > 0
  <2>1. Piece(c) = (<<Field>> \o Image(c))[sent[c] + 1]
    BY <1>1, <1>5, Bodies DEF Piece
  <2>2. Image(c) \in Seq(Pieces(c) \cup {Field}) /\ Len(Image(c)) = Parts
    BY DEF Image, Pieces
  <2>3. <<Field>> \in Seq(Pieces(c) \cup {Field}) /\ Len(<<Field>>) = 1
    OBVIOUS
  <2>4. Piece(c) = Image(c)[sent[c]]
    BY <1>1, <1>2, <1>5, <2>1, <2>2, <2>3
  <2> QED
    BY <1>1, <1>2, <1>5, <2>4 DEF Image
<1> QED
  BY <1>1, <1>3, <1>4, <1>5

\* A piece that arrives for an upload whose image is written so far.
LEMMA WriteKeeps ==
  ASSUME TypeOK, SentInv, AloneInv, WrittenInv, NEW c \in Uploads, writeHexData(c)
  PROVE  WrittenInv'
<1> USE OtaAssumption
<1>0. UploadsOK /\ FlashOK
  BY TypeParts
<1>1. /\ UNCHANGED <<otaPartition, open, pc, file, alone>>
      /\ sent' = [sent EXCEPT ![c] = @ + 1]
      /\ pc[c] # "none" /\ sent[c] < Len(Body(c))
  BY DEF writeHexData, session
<1>2. \A d \in Uploads : alone[d] => d = c
  BY <1>1, AloneActs
<1> SUFFICES ASSUME alone[c], pc[c] = "open", file[c] # "other", ~failed'[c]
             PROVE  open /\ content'[otaPartition] = SubSeq(Image(c), 1, Kept(c)')
  BY <1>1, <1>2 DEF WrittenInv, Image
<1>3. failed' = failed
  BY <1>0 DEF writeHexData, UploadsOK
<1>4. open /\ content[otaPartition] = SubSeq(Image(c), 1, Kept(c))
  BY <1>3 DEF WrittenInv
<1>5. sent[c] \in Nat /\ sent'[c] = sent[c] + 1 /\ file'[c] = file[c]
  BY <1>0, <1>1 DEF UploadsOK
<1>6. \/ /\ esp_ota_write_accepts(c)
         /\ content' = [content EXCEPT ![otaPartition] = Append(@, Piece(c))]
      \/ esp_ota_write_refuses(c) /\ UNCHANGED content
  BY <1>0, <1>3, <1>4 DEF writeHexData, UploadsOK
<1>7. CASE file[c] = "form" /\ sent[c] = 0
  <2>1. Kept(c) = 0 /\ Kept(c)' = 0
    BY <1>5, <1>7 DEF Kept
  <2>2. content[otaPartition] = <<>>
    BY <1>4, <2>1, PrefixOfImage
  <2>3. Piece(c) = Field
    BY <1>0, <1>1, <1>7, NextOfImage
  <2>4. content' = content
    BY <1>6, <2>2, <2>3 DEF esp_ota_write_accepts
  <2> QED
    BY <1>4, <2>1, <2>4
<1>8. CASE ~(file[c] = "form" /\ sent[c] = 0)
  <2>1. Piece(c) = <<c, Kept(c) + 1>> /\ Kept(c) \in 0..Parts - 1
    BY <1>0, <1>1, <1>8, NextOfImage
  <2>2. Kept(c)' = Kept(c) + 1
    BY <1>5, <1>8 DEF Kept
  <2>3. ~esp_ota_write_refuses(c)
    <3>1. content[otaPartition] = <<>> => Kept(c) = 0
      BY <1>4, <2>1, PrefixOfImage
    <3> QED
      BY <2>1, <3>1 DEF esp_ota_write_refuses
  <2>4. content'[otaPartition] = Append(content[otaPartition], <<c, Kept(c) + 1>>)
    BY <1>0, <1>4, <1>6, <2>1, <2>3 DEF FlashOK
  <2>5. SubSeq(Image(c), 1, Kept(c) + 1) = Append(SubSeq(Image(c), 1, Kept(c)), <<c, Kept(c) + 1>>)
    BY <2>1, PrefixOfImage
  <2> QED
    BY <1>4, <2>2, <2>4, <2>5
<1> QED
  BY <1>7, <1>8

THEOREM WrittenInvariant == Spec => []WrittenInv
<1> USE OtaAssumption
<1>1. Init => WrittenInv
  BY DEF Init, WrittenInv
<1>2. TypeOK /\ SentInv /\ AloneInv /\ WrittenInv /\ [Next]_vars => WrittenInv'
  <2> SUFFICES ASSUME TypeOK, SentInv, AloneInv, WrittenInv, [Next]_vars
               PROVE  WrittenInv'
    OBVIOUS
  <2>0. UploadsOK /\ FlashOK
    BY TypeParts
  <2>1. ASSUME NEW c \in Uploads, Refuse(c)
        PROVE  WrittenInv'
    <3>1. pc' = [pc EXCEPT ![c] = "refused"] /\ \A d \in Uploads : alone'[d] => d = c
      BY <2>1 DEF Refuse, Arrives
    <3> QED
      BY <2>0, <3>1 DEF WrittenInv, UploadsOK
  <2>2. ASSUME NEW c \in Uploads, begin(c)
        PROVE  WrittenInv'
    <3>1. /\ pc[c] = "none" /\ sent' = sent /\ \A d \in Uploads : alone'[d] => d = c
      BY <2>2 DEF begin, Arrives
    <3>2. sent'[c] = 0
      BY <3>1 DEF SentInv
    <3>3. otaPartition' \in Partitions /\ DOMAIN content = Partitions
      BY <2>0, <2>2 DEF begin, findNextBootPartition, Partitions, FlashOK
    <3>4. ~failed'[c] => open' /\ content'[otaPartition'] = <<>>
      BY <2>0, <2>2, <3>3 DEF begin, esp_ota_begin_ok, UploadsOK
    <3>5. Kept(c)' = 0
      BY <3>2 DEF Kept
    <3>6. SubSeq(Image(c), 1, 0) = <<>>
      BY PrefixOfImage
    <3> QED
      BY <3>1, <3>4, <3>5, <3>6 DEF WrittenInv, Image
  <2>3. ASSUME NEW c \in Uploads, writeHexData(c)
        PROVE  WrittenInv'
    BY <2>3, WriteKeeps
  <2>4. ASSUME NEW c \in Uploads, Leaves(c), pc[c] # "none"
        PROVE  WrittenInv'
    <3>1. \A d \in Uploads : alone[d] => d = c
      BY <2>4, AloneActs
    <3>2. \A d \in Uploads : ~alone'[d]
      BY <2>0, <2>4, <3>1 DEF Leaves, UploadsOK
    <3> QED
      BY <3>2 DEF WrittenInv
  <2>5. CASE Restarts
    BY <2>5 DEF Restarts, WrittenInv
  <2>6. CASE UNCHANGED vars
    <3>1. UNCHANGED <<content, otaPartition, open, pc, file, sent, failed, alone>>
      BY <2>6 DEF vars, flash, session, uploads
    <3>2. \A c \in Uploads : Kept(c)' = Kept(c)
      BY <3>1 DEF Kept
    <3> QED
      BY <3>1, <3>2 DEF WrittenInv, Image
  <2> QED
    BY <2>1, <2>2, <2>3, <2>4, <2>5, <2>6
       DEF Next, end, EndsNothing, EndFails, EndsWhole, Activates, NotActivated, PowerCut
<1> QED
  BY <1>1, <1>2, TypeInvariant, SentInvariant, AloneInvariant, PTL DEF Spec

\* An upload beside which no other went on, whose image has come whole and was
\* written without an error, is booted when it ends, unless the boot partition
\* cannot be set or the power is cut: end() finds an open handle and a whole
\* image, whatever the uploads before it have left.
THEOREM WholeUpload == Spec => WholeUploadBoots
<1> USE OtaAssumption
<1> DEFINE Boots(c) ==
      /\ alone[c] /\ pc[c] = "open" /\ file[c] # "other"
      /\ sent[c] = Len(Body(c)) /\ ~failed[c]
      /\ pc'[c] = "none"
      => boot' # boot \/ otaPartition' = None
<1>1. TypeOK /\ SentInv /\ AloneInv /\ WrittenInv /\ [Next]_vars => [\A c \in Uploads : Boots(c)]_vars
  <2> SUFFICES ASSUME TypeOK, SentInv, AloneInv, WrittenInv, Next, NEW c \in Uploads,
                      alone[c], pc[c] = "open", file[c] # "other",
                      sent[c] = Len(Body(c)), ~failed[c], pc'[c] = "none",
                      otaPartition' # None
               PROVE  FALSE
    OBVIOUS
  <2>0. UploadsOK /\ FlashOK
    BY TypeParts
  <2>1. PICK d \in Uploads : EndFails(d)
    <3>1. ASSUME NEW d \in Uploads, NEW state \in {"open", "refused"}, Arrives(d, state)
          PROVE  FALSE
      BY <2>0, <3>1 DEF Arrives, UploadsOK
    <3>2. ASSUME NEW d \in Uploads, writeHexData(d)
          PROVE  FALSE
      BY <3>2 DEF writeHexData
    <3>3. ASSUME NEW d \in Uploads, EndsNothing(d)
          PROVE  FALSE
      BY <3>3 DEF EndsNothing, session
    <3>4. ASSUME NEW d \in Uploads, Activates(d) \/ NotActivated(d)
          PROVE  FALSE
      BY <3>4 DEF Activates, Restarts, NotActivated
    <3>5. CASE PowerCut
      BY <3>5 DEF PowerCut, Restarts
    <3> QED
      BY <3>1, <3>2, <3>3, <3>4, <3>5 DEF Next, Refuse, begin, end
  <2>2. open /\ content[otaPartition] = SubSeq(Image(c), 1, Kept(c))
    BY DEF WrittenInv
  <2>3. Kept(c) = Parts
    <3>1. file[c] \in {"image", "form"}
      BY <2>0 DEF UploadsOK
    <3> QED
      BY <3>1, BodyLength DEF Kept
  <2>4. content[otaPartition] = Image(c)
    BY <2>2, <2>3, PrefixOfImage DEF Image
  <2>5. IsPrefix(Image(c), Image(c))
    BY Images DEF IsPrefix
  <2>6. Whole(content[otaPartition])
    BY <2>4, <2>5 DEF Whole
  <2> QED
    BY <2>1, <2>2, <2>6 DEF EndFails
<1> QED
  BY <1>1, TypeInvariant, SentInvariant, AloneInvariant, WrittenInvariant, PTL DEF Spec, WholeUploadBoots
=============================================================================
